---- MODULE Spec2Model ----
(***************************************************************************)
(* Generic media stream (stream.c), audio stream (audio.c) and RTP         *)
(* keepalive (rtpkeep.c) of baresip, as a state machine.  One stream       *)
(* object, its SDP media line, its optional jitter buffer, its optional    *)
(* keepalive object, and the audio object that owns the stream.            *)
(***************************************************************************)
EXTENDS Integers, Sequences, FiniteSets, TLC

(***************************************************************************)
(* Program constants                                                       *)
(***************************************************************************)
\* s->pseq = -1: the uint32 value 0xffffffff, kept as -1 (the same residue
\* modulo 2^16, and as far outside the 16-bit range)
Unset32 == -1
Mod16 == 65536
JumpMin == 3000
BackMin == 65436
SDP_INACTIVE == 0
SDP_RECVONLY == 1
SDP_SENDONLY == 2
SDP_SENDRECV == 3
Tr_UDP == 15
TmrFirst == 20
PT_DYN_MIN == 96
PT_DYN_MAX == 127
ENOENT == 2
EIO == 5
ENOSYS == 38
ENOMEM == 12
PT_CN == 13
PT_NONE == 255
DechCap == 64
TMR_INTERVAL == 3
TsStart == 160
MaxInt32 == 2147483647

(***************************************************************************)
(* Bounds of the model                                                     *)
(***************************************************************************)
MaxRx == 3
MaxTx == 2
MaxJbuf == 2
MaxKeep == 2
MaxCyc == 2
MaxCycTs == 50
MaxTel == 1
MaxCycSched == 1
MaxLeft == 2
MaxTelSeq == 3
MaxBytes == 600000
\* bytes sent or received between two samples of the bitrate
ByteVals == {0, 300000, 600000}
\* tmr_jiffies() at a sample, in ms
NowVals == {1000, 4000, 7000, 7500}
\* the ptime attribute of the remote description
SdpPtimeVals == {20, 40}
\* the width of size_t in the build
SizeBits == {32, 64}

SeqVals == {0, 1, 40000, 65534, 65535}
SsrcVals == {0, 1, 2}
LenVals == {0, 1}
TxLenVals == {1}
Seq16 == 0 .. (Mod16 - 1)
PseqStart == {Unset32, 0, 3000, 65535}
TsVals == {160, 320}
PtVals == {-1, 8}
NetErrs == {0, EIO}
MethodVals == {"", "zero", "stun", "dyna", "rtcp", "bogus"}
AudioCodecIds == {1, 2, 4}
ThreadCodecIds == {1, 4}
TelVals == {"none", "start", "cont"}
TelevLen == 4
SchedOutcomes == {<<FALSE, 0, 0, 0>>, <<TRUE, 0, 1, 0>>}
PtimeVals == {20, 700}
TsStarts == {TsStart, -160}
\* an encode cycle: <<got, encerr, outlen, neterr>>: no frame in the buffer,
\* the encoder fails, it gives no bytes, the packet is sent, the send fails
CycleOutcomes ==
    {<<FALSE, 0, 0, 0>>, <<TRUE, EIO, 0, 0>>, <<TRUE, 0, 0, 0>>,
     <<TRUE, 0, 1, 0>>, <<TRUE, 0, 1, EIO>>}
RxPtVals == {0, 8, 5, PT_CN}
\* payload types given to audio_enable_telev(): the usual dynamic one and
\* one that is an audio format of the session as well
TelPtVals == {101, 8}

VARIABLES sdp, cfg, s, jbuf, rtpkeep, ev, ghost, au, aev

vars == <<sdp, cfg, s, jbuf, rtpkeep, ev, ghost, au, aev>>

(***************************************************************************)
(* Helpers                                                                 *)
(***************************************************************************)
\* bitwise AND of two SDP directions (two-bit masks)
DirAnd(a, b) == (a % 2) * (b % 2) + 2 * ((a \div 2) * (b \div 2))

\* sdp_media_dir(): the negotiated direction is local & remote
sdp_media_dir == DirAnd(sdp.ldir, sdp.rdir)

\* const uint16_t delta = seq - s->pseq  (uint32 arithmetic, cut to 16 bits)
Delta16(seq, pseq) == (seq - pseq) % Mod16

lostcalc_adopt_on_ignore(pseq, seq) ==
    LET delta == Delta16(seq, pseq) IN
    IF pseq = Unset32 THEN [ret |-> 0, pseq |-> seq]
    ELSE IF delta = 0 THEN [ret |-> -1, pseq |-> seq]
    ELSE IF delta < JumpMin THEN [ret |-> delta - 1, pseq |-> seq]
    ELSE IF delta < BackMin THEN [ret |-> 0, pseq |-> seq]
    ELSE [ret |-> -2, pseq |-> seq]

lostcalc_off_by_one(pseq, seq) ==
    LET delta == Delta16(seq, pseq) IN
    IF pseq = Unset32 THEN [ret |-> 0, pseq |-> seq]
    ELSE IF delta = 0 THEN [ret |-> -1, pseq |-> pseq]
    ELSE IF delta <= JumpMin THEN [ret |-> delta, pseq |-> seq]
    ELSE IF delta < BackMin THEN [ret |-> 0, pseq |-> seq]
    ELSE [ret |-> -2, pseq |-> pseq]

lostcalc_jump_as_loss(pseq, seq) ==
    LET delta == Delta16(seq, pseq) IN
    IF pseq = Unset32 THEN [ret |-> 0, pseq |-> seq]
    ELSE IF delta = 0 THEN [ret |-> -1, pseq |-> pseq]
    ELSE IF delta < BackMin THEN [ret |-> delta - 1, pseq |-> seq]
    ELSE [ret |-> -2, pseq |-> pseq]

\* lostcalc(): the return value and the new s->pseq
lostcalc(pseq, seq) ==
    LET delta == Delta16(seq, pseq) IN
    IF pseq = Unset32 THEN [ret |-> 0, pseq |-> seq]
    ELSE IF delta = 0 THEN [ret |-> -1, pseq |-> pseq]
    ELSE IF delta < JumpMin THEN [ret |-> delta - 1, pseq |-> seq]
    ELSE IF delta < BackMin THEN [ret |-> 0, pseq |-> seq]
    ELSE [ret |-> -2, pseq |-> pseq]

(***************************************************************************)
(* Observation of the last operation, and history of the run               *)
(***************************************************************************)
\* one step of an operation's trace: a jitter-buffer call or an rtph() call
Ev(e, ok, hdr, seq, mb) == [e |-> e, ok |-> ok, hdr |-> hdr, seq |-> seq, mb |-> mb]

NoEv == [op |-> "init", ssrc |-> 0, seq |-> 0, len |-> 0, passed |-> FALSE,
         ssrc0 |-> 0, seen0 |-> FALSE, pseq0 |-> Unset32,
         chdr |-> "none", cseq |-> 0, lost |-> 0, trace |-> <<>>,
         ret |-> 0, ka |-> 0, kam |-> "", wire |-> <<>>, now |-> 0,
         tmr0 |-> 0]

\* a packet handed to the network: udp_send(), stun_indication() or
\* rtp_send(); len is the number of payload bytes
Pkt(kind, dst, pt, ts, marker, len, err) ==
    [kind |-> kind, dst |-> dst, pt |-> pt, ts |-> ts, marker |-> marker,
     len |-> len, err |-> err]

NoGhost == [ssrc_seen |-> FALSE, adm_pkt |-> -1, adm_hdr |-> -1,
            refreshed |-> FALSE, n_alloc |-> 0,
            n_cyc |-> 0, n_ok |-> 0, n_pkt |-> 0, n_tel |-> 0, ka_ts |-> 0, ts0 |-> TsStart, cap |-> 0,
            telcap |-> MaxTel, size_bits |-> 64, armed |-> {},
            gone |-> FALSE]

(***************************************************************************)
(* Jitter buffer (external collaborator): frames in playout order          *)
(***************************************************************************)
jbuf_flush(jb) == <<>>

\* a full buffer gives up its oldest frame; the new frame takes its place in
\* the order (any place: the order is the buffer's own business)
jbuf_put(jb, f, pos) ==
    LET room == IF Len(jb) >= MaxJbuf THEN Tail(jb) ELSE jb
        p == IF pos > Len(room) + 1 THEN Len(room) + 1 ELSE pos
    IN SubSeq(room, 1, p - 1) \o <<f>> \o SubSeq(room, p, Len(room))

\* jbuf_get() has a frame only above the minimum delay
jbuf_get_ok(jb) == Len(jb) > cfg.jbuf_min /\ jb # <<>>

(***************************************************************************)
(* rtp_recv(): one RTP packet from the socket                              *)
(***************************************************************************)
DrainReturns_on_failure(got, started) == ~got

\* rtp_recv(): jbuf_get() failed and playout has not started: return
DrainReturns(got, started) == ~got /\ ~started

LossSignal_nonzero(ret) == ret # 0

\* if (lostcalc(s, seq) > 0) s->rtph(hdr, NULL, s->arg)
LossSignal(ret) == ret > 0

FlushOnChange_any(ssrc) == ssrc # s.ssrc_rx

\* flush = true: the SSRC differs and s->ssrc_rx is non-zero
FlushOnChange(ssrc) == ssrc # s.ssrc_rx /\ s.ssrc_rx # 0

RecvDropped_empty_only(len) == len = 0

RecvDropped(len) == len = 0 \/ DirAnd(sdp.ldir, SDP_RECVONLY) = 0

RtpRecv(ssrc, seq, len, putok, pos) ==
    /\ s.n_rx < MaxRx
    /\ LET ev0 == [NoEv EXCEPT !.op = "rtp_recv", !.ssrc = ssrc, !.seq = seq,
                               !.len = len, !.ssrc0 = s.ssrc_rx,
                               !.seen0 = ghost.ssrc_seen, !.pseq0 = s.pseq]
       IN
       IF RecvDropped(len)
       THEN /\ ev' = [NoEv EXCEPT !.op = "rtp_recv", !.len = len]
            /\ UNCHANGED <<au, aev, sdp, cfg, s, jbuf, rtpkeep, ghost>>
       ELSE
       LET flush == FlushOnChange(ssrc)
           s1 == [s EXCEPT !.n_rx = @ + 1, !.b_rx = @ + len, !.ssrc_rx = ssrc]
           g1 == [ghost EXCEPT !.ssrc_seen = TRUE]
       IN
       IF cfg.jbuf_min > 0
       THEN
         LET jb1 == IF flush THEN jbuf_flush(jbuf) ELSE jbuf
             jb2 == IF putok THEN jbuf_put(jb1, [seq |-> seq], pos) ELSE jb1
             got == jbuf_get_ok(jb2)
             tr0 == (IF flush THEN <<Ev("flush", TRUE, "in", seq, "-")>> ELSE <<>>)
                    \o <<Ev("put", putok, "in", seq, "data"),
                         Ev("get", got, "-", (IF got THEN Head(jb2).seq ELSE 0), "-")>>
         IN
         IF DrainReturns(got, s.jbuf_started)
         THEN /\ s' = s1
              /\ jbuf' = jb2
              /\ ghost' = g1
              /\ ev' = [ev0 EXCEPT !.passed = TRUE, !.trace = tr0]
              /\ UNCHANGED <<au, aev, sdp, cfg, rtpkeep>>
         ELSE
           LET hseq == IF got THEN Head(jb2).seq ELSE 0
               hkind == IF got THEN "deq" ELSE "zero"
               mb2 == IF got THEN "data" ELSE "null"
               lc == lostcalc(s.pseq, hseq)
               tr1 == tr0
                      \o (IF LossSignal(lc.ret) THEN <<Ev("rtph", TRUE, "in", seq, "null")>> ELSE <<>>)
                      \o <<Ev("rtph", TRUE, hkind, hseq, mb2)>>
           IN
           /\ s' = [s1 EXCEPT !.jbuf_started = TRUE, !.pseq = lc.pseq]
           /\ jbuf' = IF got THEN Tail(jb2) ELSE jb2
           /\ ghost' = [g1 EXCEPT
                          !.adm_pkt = IF lc.ret >= 0 /\ got THEN hseq ELSE @,
                          !.adm_hdr = IF lc.ret >= 0 THEN hseq ELSE @]
           /\ ev' = [ev0 EXCEPT !.passed = TRUE, !.chdr = hkind, !.cseq = hseq,
                                !.lost = lc.ret, !.trace = tr1]
           /\ UNCHANGED <<au, aev, sdp, cfg, rtpkeep>>
       ELSE
         LET lc == lostcalc(s.pseq, seq)
             tr == (IF LossSignal(lc.ret) THEN <<Ev("rtph", TRUE, "in", seq, "null")>> ELSE <<>>)
                   \o <<Ev("rtph", TRUE, "in", seq, "data")>>
         IN
         /\ s' = [s1 EXCEPT !.pseq = lc.pseq]
         /\ ghost' = [g1 EXCEPT
                        !.adm_pkt = IF lc.ret >= 0 THEN seq ELSE @,
                        !.adm_hdr = IF lc.ret >= 0 THEN seq ELSE @]
         /\ ev' = [ev0 EXCEPT !.passed = TRUE, !.chdr = "in", !.cseq = seq,
                              !.lost = lc.ret, !.trace = tr]
         /\ UNCHANGED <<au, aev, sdp, cfg, jbuf, rtpkeep>>

\* stream_hold(): the local direction
StreamHold(hold) ==
    /\ sdp' = [sdp EXCEPT !.ldir = IF hold THEN SDP_SENDONLY ELSE SDP_SENDRECV]
    /\ ev' = [NoEv EXCEPT !.op = "setup"]
    /\ UNCHANGED <<au, aev, cfg, s, jbuf, rtpkeep, ghost>>

(***************************************************************************)
(* audio.c: codecs, sample counts, the audio object after audio_alloc()    *)
(***************************************************************************)
\* the audio codecs of the user agent (ua_aucodecl), each with its static or
\* dynamic payload type; G722 declares 8000 Hz and runs at 16000 Hz
AuCodecs ==
    << [name |-> "PCMU", srate |-> 8000, ch |-> 1, pt |-> 0],
       [name |-> "PCMA", srate |-> 8000, ch |-> 1, pt |-> 8],
       [name |-> "G722", srate |-> 8000, ch |-> 1, pt |-> 9],
       [name |-> "L16", srate |-> 48000, ch |-> 2, pt |-> 96] >>

\* a uint32 is kept as the int32 with the same bits: u below 2^31 as u,
\* u from 2^31 on as u - 2^32; adding n (0 <= n < 2^31) wraps as in C
Add32(x, n) ==
    IF x > MaxInt32 - n THEN ((x - MaxInt32) + (n - 1)) - MaxInt32 - 1 ELSE x + n

\* calc_nsamp(): srate * channels * ptime / 1000 with a uint16_t ptime; the
\* uint32_t product stays below 2^31 for the codecs and packet times here
calc_nsamp(srate, channels, ptime) ==
    (srate * channels * (ptime % Mod16)) \div 1000

\* get_srate(): the DSP sample rate (exception for G.722)
get_srate(ac) == IF ac.name = "G722" THEN 16000 ELSE ac.srate

aucodec_equal_identity(x, y) ==
    x.name = y.name /\ x.srate = y.srate /\ x.ch = y.ch

aucodec_equal_clock_rate(x, y) == x.srate = y.srate /\ x.ch = y.ch

\* aucodec_equal(): same DSP sample rate and channels (both codecs non-NULL)
aucodec_equal(x, y) == get_srate(x) = get_srate(y) /\ x.ch = y.ch

\* aucodec_cmp(): same name, clock rate and channels
aucodec_cmp(x, y) == x.name = y.name /\ x.srate = y.srate /\ x.ch = y.ch

\* a codec state (struct aucodec_st): its codec and its reference count;
\* ac = 0 marks a slot that holds no object
NoInst == [ac |-> 0, refs |-> 0]

\* the audio object after audio_alloc(); src, play, thread and tmr_tx are
\* the capture device, the player, the tx thread and the tx timer
audio_alloc(mode, ptime) ==
    [alive |-> TRUE, mode |-> mode, enc |-> 0, dec |-> 0,
     inst |-> [i \in 1 .. 2 |-> NoInst],
     fc |-> FALSE, auplay |-> FALSE, ausrc |-> FALSE,
     aubuf_tx |-> FALSE, aubuf_rx |-> FALSE,
     psize |-> 0, ptime_tx |-> ptime, ptime_rx |-> ptime,
     pt_tx |-> PT_NONE, pt_rx |-> PT_NONE, pt_tel_rx |-> PT_NONE,
     pt_tel_tx |-> PT_NONE, ts_tel |-> 0, ts_tx |-> TsStart, marker |-> TRUE, is_g722 |-> FALSE,
     tmr_tx |-> FALSE, run_tx |-> FALSE, thread |-> "none", nthreads |-> 0,
     rpc |-> "idle", src_first |-> FALSE, aufilt |-> FALSE]

\* observation of the last audio operation: its call trace, its return
\* value, the packets it handed to the network, and what it found
NoAev == [op |-> "init", ret |-> 0, trace |-> <<>>, wire |-> <<>>,
          ctx |-> "", pt |-> 0, found |-> FALSE, nsamp |-> 0, ok |-> FALSE,
          dcodec |-> 0, mb |-> FALSE, telwire |-> <<>>, overlap |-> FALSE,
          rxw |-> FALSE, ndech |-> 0, left |-> 0, errat |-> 0]

(***************************************************************************)
(* State after stream_alloc()                                              *)
(***************************************************************************)
NoRk == [live |-> FALSE, id |-> 0, method |-> "", ts |-> 0, flag |-> FALSE, tmr |-> 0]

stream_alloc ==
    [ssrc_rx |-> 0, pseq |-> Unset32, rtcp_mux |-> FALSE, jbuf_started |-> FALSE,
     pt_enc |-> -1, n_tx |-> 0, n_rx |-> 0, b_tx |-> 0, b_rx |-> 0,
     stats_ts |-> 0, bitrate_tx |-> 0, bitrate_rx |-> 0, tmr_stats |-> 0]

sdp_media_add ==
    [ldir |-> SDP_SENDRECV, rdir |-> SDP_SENDRECV, raddr |-> 0, rfmts |-> <<>>,
     rmux |-> FALSE]

InitCommon ==
    /\ sdp = sdp_media_add
    /\ jbuf = <<>>
    /\ rtpkeep = NoRk
    /\ ev = NoEv
    /\ ghost = NoGhost
    /\ au = audio_alloc("poll", 20)
    /\ aev = NoAev

(***************************************************************************)
(* Remote descriptions the SDP negotiation (external) can leave in the     *)
(* media line: remote address, remote direction, remote format table and   *)
(* the rtcp-mux attribute                                                   *)
(***************************************************************************)
AllDyn == [i \in 1 .. (PT_DYN_MAX - PT_DYN_MIN + 1) |-> PT_DYN_MIN + i - 1]

Rd(raddr, rdir, rfmts, rmux) ==
    [raddr |-> raddr, rdir |-> rdir, rfmts |-> rfmts, rmux |-> rmux]

RemoteDescs ==
    { Rd(1, SDP_SENDRECV, <<0>>, FALSE),
      Rd(1, SDP_SENDRECV, <<0, 127>>, TRUE),
      Rd(2, SDP_SENDRECV, AllDyn, FALSE),
      Rd(1, SDP_RECVONLY, <<0>>, FALSE),
      Rd(1, SDP_SENDONLY, <<8>>, TRUE),
      Rd(0, SDP_SENDRECV, <<0>>, FALSE) }

\* the remote description is decoded into the media line
SdpUpdate(d) ==
    /\ sdp' = [sdp EXCEPT !.raddr = d.raddr, !.rdir = d.rdir,
                          !.rfmts = d.rfmts, !.rmux = d.rmux]
    /\ ev' = [NoEv EXCEPT !.op = "setup"]
    /\ UNCHANGED <<au, aev, cfg, s, jbuf, rtpkeep, ghost>>

(***************************************************************************)
(* rtpkeep.c                                                               *)
(***************************************************************************)
HasPt(fmts, pt) == \E i \in 1 .. Len(fmts) : fmts[i] = pt

RECURSIVE scan_pt(_, _)
scan_pt(fmts, pt) ==
    IF pt < PT_DYN_MIN THEN -1
    ELSE IF ~HasPt(fmts, pt) THEN pt
    ELSE scan_pt(fmts, pt - 1)

find_unused_pt_reuse(fmts) ==
    IF scan_pt(fmts, PT_DYN_MAX) = -1 THEN PT_DYN_MAX ELSE scan_pt(fmts, PT_DYN_MAX)

find_unused_pt_lowest(fmts) ==
    LET free == {pt \in PT_DYN_MIN .. PT_DYN_MAX : ~HasPt(fmts, pt)} IN
    IF free = {} THEN -1 ELSE CHOOSE pt \in free : \A q \in free : pt <= q

\* find_unused_pt(): from PT_DYN_MAX down to PT_DYN_MIN, -1 if none
find_unused_pt(fmts) == scan_pt(fmts, PT_DYN_MAX)

\* send_keepalive(): the error returned and the packets handed to the network
send_keepalive(rk, neterr) ==
    LET m == rk.method IN
    IF m = "zero"
    THEN [err |-> neterr, wire |-> <<Pkt("udp", sdp.raddr, -1, 0, FALSE, 0, neterr)>>]
    ELSE IF m = "stun"
    THEN [err |-> neterr, wire |-> <<Pkt("stun", sdp.raddr, -1, 0, FALSE, 0, neterr)>>]
    ELSE IF m = "dyna"
    THEN LET pt == find_unused_pt(sdp.rfmts) IN
         IF pt = -1 THEN [err |-> ENOENT, wire |-> <<>>]
         ELSE [err |-> neterr,
               wire |-> <<Pkt("rtp", sdp.raddr, pt, rk.ts, FALSE, 0, neterr)>>]
    ELSE IF m = "rtcp"
    THEN [err |-> 0, wire |-> <<>>]
    ELSE [err |-> ENOSYS, wire |-> <<>>]

tmr_start_not_again(rk) == [rk EXCEPT !.tmr = 0]

\* timeout(), first statement: tmr_start(&rk->tmr, Tr_UDP * 1000, timeout, rk)
tmr_start(rk) == [rk EXCEPT !.tmr = Tr_UDP * 1000]

timeout_keep_flag(rk) == [rk EXCEPT !.tmr = Tr_UDP * 1000]

\* timeout(), flag set: the timer is started again and the flag cleared
timeout_consume(rk) == [tmr_start(rk) EXCEPT !.flag = FALSE]

\* timeout(): the keepalive timer, which is running, fires
Timeout(neterr) ==
    /\ rtpkeep.live
    /\ rtpkeep.tmr > 0
    /\ IF rtpkeep.flag
       THEN /\ rtpkeep' = timeout_consume(rtpkeep)
            /\ ev' = [NoEv EXCEPT !.op = "timeout", !.tmr0 = rtpkeep.tmr]
       ELSE LET r == send_keepalive(rtpkeep, neterr) IN
            /\ rtpkeep' = tmr_start(rtpkeep)
            /\ ev' = [NoEv EXCEPT !.op = "timeout", !.ka = 1,
                                  !.kam = rtpkeep.method,
                                  !.ret = r.err, !.wire = r.wire,
                                  !.tmr0 = rtpkeep.tmr]
    /\ ghost' = [ghost EXCEPT !.refreshed = FALSE]
    /\ UNCHANGED <<au, aev, sdp, cfg, s, jbuf>>

rtpkeep_alloc_full_period(method, id) ==
    [live |-> TRUE, id |-> id, method |-> method, ts |-> 0, flag |-> FALSE,
     tmr |-> Tr_UDP * 1000]

\* rtpkeep_alloc(): a fresh object, first timeout after 20 ms
rtpkeep_alloc(method, id) ==
    [live |-> TRUE, id |-> id, method |-> method, ts |-> 0, flag |-> FALSE,
     tmr |-> TmrFirst]

rtpkeep_refresh_no_ts(rk, ts) ==
    IF ~rk.live THEN rk ELSE [rk EXCEPT !.flag = TRUE]

\* rtpkeep_refresh()
rtpkeep_refresh(rk, ts) ==
    IF ~rk.live THEN rk ELSE [rk EXCEPT !.ts = ts, !.flag = TRUE]

(***************************************************************************)
(* stream.c, send side                                                     *)
(***************************************************************************)
SendGate_addr_only == sdp.raddr # 0

\* stream_send() goes on: the remote address is set and the direction is sendrecv
SendGate == sdp.raddr # 0 /\ sdp_media_dir = SDP_SENDRECV

stream_send_on_count_sent(st, rk, marker, pt, ts, len, neterr) ==
    IF ~SendGate
    THEN [passed |-> FALSE, ret |-> 0, wire |-> <<>>, s |-> st, rtpkeep |-> rk]
    ELSE LET pt1 == IF pt < 0 THEN st.pt_enc ELSE pt
             sent == pt1 >= 0
             err == IF sent THEN neterr ELSE 0
             good == sent /\ err = 0
         IN [passed |-> TRUE, ret |-> err,
             wire |-> IF sent
                      THEN <<Pkt("rtp", sdp.raddr, pt1, ts, marker, len, err)>>
                      ELSE <<>>,
             s |-> IF good THEN [st EXCEPT !.b_tx = @ + len, !.n_tx = @ + 1]
                   ELSE st,
             rtpkeep |-> IF good THEN rtpkeep_refresh(rk, ts) ELSE rk]

\* stream_send(): what it returns, what it hands to the network, and the
\* stream and keepalive objects it leaves
stream_send_on(st, rk, marker, pt, ts, len, neterr) ==
    IF ~SendGate
    THEN [passed |-> FALSE, ret |-> 0, wire |-> <<>>, s |-> st, rtpkeep |-> rk]
    ELSE LET pt1 == IF pt < 0 THEN st.pt_enc ELSE pt
             sent == pt1 >= 0
             err == IF sent THEN neterr ELSE 0
         IN [passed |-> TRUE, ret |-> err,
             wire |-> IF sent
                      THEN <<Pkt("rtp", sdp.raddr, pt1, ts, marker, len, err)>>
                      ELSE <<>>,
             s |-> [st EXCEPT !.b_tx = @ + len, !.n_tx = @ + 1],
             rtpkeep |-> rtpkeep_refresh(rk, ts)]

\* stream_send() on the stream and its keepalive object
stream_send(marker, pt, ts, len, neterr) ==
    stream_send_on(s, rtpkeep, marker, pt, ts, len, neterr)

StreamSend(marker, pt, ts, len, neterr) ==
    /\ s.n_tx < MaxTx
    /\ LET r == stream_send(marker, pt, ts, len, neterr) IN
       /\ s' = r.s
       /\ rtpkeep' = r.rtpkeep
       /\ ghost' = IF r.passed
                   THEN [ghost EXCEPT !.refreshed = rtpkeep.live,
                                      !.ka_ts = IF rtpkeep.live THEN ts ELSE @]
                   ELSE ghost
       /\ ev' = [NoEv EXCEPT !.op = "stream_send", !.passed = r.passed,
                             !.ret = r.ret, !.wire = r.wire]
       /\ UNCHANGED <<au, aev, sdp, cfg, jbuf>>

stream_remote_set_follow(st) ==
    [st EXCEPT !.rtcp_mux = cfg.rtcp_mux /\ sdp.rmux]

\* stream_remote_set(): RTCP multiplexing is switched on, never off
stream_remote_set(st) ==
    IF cfg.rtcp_mux /\ sdp.rmux THEN [st EXCEPT !.rtcp_mux = TRUE] ELSE st

\* sdp_media_has_media(): a remote format and a remote port
sdp_media_has_media == sdp.rfmts # <<>> /\ sdp.raddr # 0

\* stream_update(): the encoder payload type is the first remote format's
StreamUpdate ==
    /\ LET s1 == [s EXCEPT !.pt_enc = IF sdp.rfmts # <<>> THEN Head(sdp.rfmts) ELSE -1]
       IN s' = IF sdp_media_has_media THEN stream_remote_set(s1) ELSE s1
    /\ ev' = [NoEv EXCEPT !.op = "setup"]
    /\ UNCHANGED <<au, aev, sdp, cfg, jbuf, rtpkeep, ghost>>

\* stream_start_keepalive(): the old object goes, a new one is made when a
\* method is configured and a remote format is negotiated
KeepaliveWanted == cfg.rtpkeep # "" /\ sdp.rfmts # <<>>

\* destructor() of a keepalive object: tmr_cancel(); armed: the keepalive
\* objects whose timer is armed
rtpkeep_destructor(armed, rk) == IF rk.live THEN armed \ {rk.id} ELSE armed

stream_start_keepalive_keep_old(rk, armed, n, allocok) ==
    IF KeepaliveWanted /\ allocok
    THEN [rk |-> rtpkeep_alloc(cfg.rtpkeep, n + 1),
          armed |-> armed \cup {n + 1}, n |-> n + 1,
          trace |-> <<Ev("rtpkeep_alloc", TRUE, "-", n + 1, "-")>>]
    ELSE [rk |-> NoRk, armed |-> armed, n |-> n,
          trace |-> IF KeepaliveWanted
                    THEN <<Ev("rtpkeep_alloc", FALSE, "-", 0, "-")>>
                    ELSE <<>>]

\* stream_start_keepalive(): mem_deref() of the old object, whose only
\* reference is the stream's, then rtpkeep_alloc() when wanted (allocok: it
\* finds the memory); n: the objects made so far
stream_start_keepalive(rk, armed, n, allocok) ==
    LET a1 == rtpkeep_destructor(armed, rk)
        tr0 == IF rk.live THEN <<Ev("rtpkeep_deref", TRUE, "-", rk.id, "-")>>
               ELSE <<>>
    IN
    IF KeepaliveWanted /\ allocok
    THEN [rk |-> rtpkeep_alloc(cfg.rtpkeep, n + 1),
          armed |-> a1 \cup {n + 1}, n |-> n + 1,
          trace |-> tr0 \o <<Ev("rtpkeep_alloc", TRUE, "-", n + 1, "-")>>]
    ELSE [rk |-> NoRk, armed |-> a1, n |-> n,
          trace |-> tr0 \o (IF KeepaliveWanted
                            THEN <<Ev("rtpkeep_alloc", FALSE, "-", 0, "-")>>
                            ELSE <<>>)]

\* stream_reset(): flush the jitter buffer, start the keepalive again
StreamResetWith(allocok) ==
    /\ KeepaliveWanted => ghost.n_alloc < MaxKeep
    /\ jbuf' = jbuf_flush(jbuf)
    /\ LET r == stream_start_keepalive(rtpkeep, ghost.armed, ghost.n_alloc,
                                       allocok)
       IN /\ rtpkeep' = r.rk
          /\ ghost' = [ghost EXCEPT !.refreshed = FALSE, !.ka_ts = 0,
                                    !.n_alloc = r.n, !.armed = r.armed]
          /\ ev' = [NoEv EXCEPT !.op = "stream_reset", !.trace = r.trace]
    /\ UNCHANGED <<au, aev, sdp, cfg, s>>

StreamReset == StreamResetWith(TRUE)

\* stream_destructor(): the order of its releases
stream_destructor_calls ==
    <<"list_unlink", "tmr_cancel", "rtpkeep_deref", "sdp_deref", "mes_deref",
      "mencs_deref", "mns_deref", "jbuf_deref", "rtp_deref">>

\* stream_destructor()
StreamDestroy ==
    /\ ~ghost.gone
    /\ rtpkeep' = NoRk
    /\ s' = [s EXCEPT !.tmr_stats = 0]
    /\ ghost' = [ghost EXCEPT !.gone = TRUE,
                              !.armed = rtpkeep_destructor(@, rtpkeep)]
    /\ ev' = [NoEv EXCEPT !.op = "stream_destructor",
                          !.ka = IF rtpkeep.live THEN rtpkeep.id ELSE 0,
                          !.trace = [i \in DOMAIN stream_destructor_calls |->
                                       Ev(stream_destructor_calls[i], TRUE,
                                          "-", 0, "-")]]
    /\ UNCHANGED <<au, aev, sdp, cfg, jbuf>>

(***************************************************************************)
(* audio.c: codec states, start and stop of the devices                    *)
(***************************************************************************)
\* aucodec_get(): the codec of a codec state
aucodec_get(a, id) == AuCodecs[a.inst[id].ac]

mem_ref_none(a, id) == a

\* mem_ref() of a codec state
mem_ref(a, id) == [a EXCEPT !.inst[id].refs = @ + 1]

\* mem_deref() of a codec state: the last reference frees it
mem_deref(a, id) ==
    IF id = 0 THEN a
    ELSE IF a.inst[id].refs > 1 THEN [a EXCEPT !.inst[id].refs = @ - 1]
    ELSE [a EXCEPT !.inst[id] = NoInst]

\* ac->alloch(): a new codec state in a free slot
FreeSlot(a) == IF a.inst[1].ac = 0 THEN 1 ELSE 2

\* the result of an audio function: the object, the return value, the calls
Res(a, ret, trace) == [a |-> a, ret |-> ret, trace |-> trace]

start_source_thread_again(a, srcok, throk) ==
    IF a.ausrc \/ a.enc = 0 THEN Res(a, 0, <<>>)
    ELSE
    LET ac == aucodec_get(a, a.enc)
        frame_size == calc_nsamp(get_srate(ac), ac.ch, a.ptime_tx)
        a1 == [a EXCEPT !.psize = 2 * frame_size, !.aubuf_tx = TRUE]
    IN
    IF ~srcok THEN Res(a1, EIO, <<>>)
    ELSE
    LET a2 == [a1 EXCEPT !.ausrc = TRUE] IN
    IF a.mode \in {"thread", "thread_realtime"}
    THEN IF throk
         THEN Res([a2 EXCEPT !.run_tx = TRUE, !.thread = "run", !.nthreads = @ + 1],
                  0, <<"ausrc_alloc", "pthread_create">>)
         ELSE Res([a2 EXCEPT !.run_tx = FALSE], ENOMEM, <<"ausrc_alloc">>)
    ELSE IF a.mode = "tmr"
    THEN Res([a2 EXCEPT !.tmr_tx = TRUE], 0, <<"ausrc_alloc", "tmr_start">>)
    ELSE Res(a2, 0, <<"ausrc_alloc">>)

\* start_source()
start_source(a, srcok, throk) ==
    IF a.ausrc \/ a.enc = 0 THEN Res(a, 0, <<>>)
    ELSE
    LET ac == aucodec_get(a, a.enc)
        frame_size == calc_nsamp(get_srate(ac), ac.ch, a.ptime_tx)
        a1 == [a EXCEPT !.psize = 2 * frame_size, !.aubuf_tx = TRUE]
    IN
    IF ~srcok THEN Res(a1, EIO, <<>>)
    ELSE
    LET a2 == [a1 EXCEPT !.ausrc = TRUE] IN
    IF a.mode \in {"thread", "thread_realtime"}
    THEN IF a2.run_tx THEN Res(a2, 0, <<"ausrc_alloc">>)
         ELSE IF throk
         THEN Res([a2 EXCEPT !.run_tx = TRUE, !.thread = "run", !.nthreads = @ + 1],
                  0, <<"ausrc_alloc", "pthread_create">>)
         ELSE Res(a2, ENOMEM, <<"ausrc_alloc">>)
    ELSE IF a.mode = "tmr"
    THEN Res([a2 EXCEPT !.tmr_tx = TRUE], 0, <<"ausrc_alloc", "tmr_start">>)
    ELSE Res(a2, 0, <<"ausrc_alloc">>)

\* start_player()
start_player(a, playok) ==
    IF a.auplay \/ a.dec = 0 THEN Res(a, 0, <<>>)
    ELSE
    LET a1 == [a EXCEPT !.aubuf_rx = TRUE] IN
    IF playok THEN Res([a1 EXCEPT !.auplay = TRUE], 0, <<"auplay_alloc">>)
    ELSE Res(a1, EIO, <<>>)

audio_start_last_error(a, srcok, playok, throk) ==
    LET mkfc == ~a.fc /\ a.aufilt
        a0 == IF mkfc THEN [a EXCEPT !.fc = TRUE] ELSE a
        tr0 == IF mkfc THEN <<"aufilt_chain_alloc">> ELSE <<>>
    IN
    IF a.src_first
    THEN LET r1 == start_source(a0, srcok, throk)
             r2 == start_player(r1.a, playok)
         IN Res(r2.a, r2.ret, tr0 \o r1.trace \o r2.trace)
    ELSE LET r1 == start_player(a0, playok)
             r2 == start_source(r1.a, srcok, throk)
         IN Res(r2.a, r2.ret, tr0 \o r1.trace \o r2.trace)

\* audio_start(): the filter chain, then the source and the player in the
\* configured order, the second started also when the first failed
audio_start(a, srcok, playok, throk) ==
    LET mkfc == ~a.fc /\ a.aufilt
        a0 == IF mkfc THEN [a EXCEPT !.fc = TRUE] ELSE a
        tr0 == IF mkfc THEN <<"aufilt_chain_alloc">> ELSE <<>>
    IN
    IF a.src_first
    THEN LET r1 == start_source(a0, srcok, throk)
             r2 == start_player(r1.a, playok)
         IN Res(r2.a, IF r1.ret # 0 THEN r1.ret ELSE r2.ret,
                tr0 \o r1.trace \o r2.trace)
    ELSE LET r1 == start_player(a0, playok)
             r2 == start_source(r1.a, srcok, throk)
         IN Res(r2.a, IF r1.ret # 0 THEN r1.ret ELSE r2.ret,
                tr0 \o r1.trace \o r2.trace)

audio_stop_devices_buffers_first(a) ==
    Res([a EXCEPT !.ausrc = FALSE, !.auplay = FALSE, !.fc = FALSE,
                  !.aubuf_tx = FALSE, !.aubuf_rx = FALSE],
        0,
        <<"aubuf_tx_deref", "aubuf_rx_deref", "ausrc_deref", "auplay_deref",
          "fc_deref">>)

audio_stop_devices_keep_source(a) ==
    Res([a EXCEPT !.auplay = FALSE, !.fc = FALSE,
                  !.aubuf_tx = FALSE, !.aubuf_rx = FALSE],
        0,
        <<"auplay_deref", "fc_deref", "aubuf_tx_deref", "aubuf_rx_deref">>)

\* audio_stop() after its switch on the mode: the devices, the filter chain
\* and the ring buffers are released in this order
audio_stop_devices(a) ==
    Res([a EXCEPT !.ausrc = FALSE, !.auplay = FALSE, !.fc = FALSE,
                  !.aubuf_tx = FALSE, !.aubuf_rx = FALSE],
        0,
        <<"ausrc_deref", "auplay_deref", "fc_deref", "aubuf_tx_deref",
          "aubuf_rx_deref">>)

\* audio_encoder_set()
audio_encoder_set(a, c, pt_tx, allocok, srcok, playok, throk) ==
    LET ac == AuCodecs[c]
        reset == a.enc # 0 /\ ~aucodec_equal(aucodec_get(a, a.enc), ac)
        a1 == IF reset THEN [a EXCEPT !.ausrc = FALSE] ELSE a
        tr1 == IF reset THEN <<"ausrc_deref">> ELSE <<>>
        a2 == [mem_deref(a1, a1.enc) EXCEPT !.is_g722 = (ac.name = "G722"),
                                            !.pt_tx = pt_tx, !.enc = 0]
        tr2 == tr1 \o <<"enc_deref">>
    IN
    IF a2.dec # 0 /\ aucodec_cmp(ac, aucodec_get(a2, a2.dec))
    THEN LET a3 == [mem_ref(a2, a2.dec) EXCEPT !.enc = a2.dec]
             r == IF reset THEN audio_start(a3, srcok, playok, throk)
                  ELSE Res(a3, 0, <<>>)
         IN Res(r.a, r.ret, tr2 \o <<"enc_share">> \o r.trace)
    ELSE IF ~allocok THEN Res(a2, ENOMEM, tr2)
    ELSE LET i == FreeSlot(a2)
             a3 == [a2 EXCEPT !.inst[i] = [ac |-> c, refs |-> 1], !.enc = i]
             r == IF reset THEN audio_start(a3, srcok, playok, throk)
                  ELSE Res(a3, 0, <<>>)
         IN Res(r.a, r.ret, tr2 \o <<"enc_alloc">> \o r.trace)

audio_decoder_set_pt_only(a, c, pt_rx, allocok, srcok, playok, throk) ==
    Res([a EXCEPT !.pt_rx = pt_rx], 0, <<>>)

\* audio_decoder_set()
audio_decoder_set(a, c, pt_rx, allocok, srcok, playok, throk) ==
    LET ac == AuCodecs[c]
        reset == a.dec # 0 /\ ~aucodec_equal(aucodec_get(a, a.dec), ac)
        a2 == [mem_deref(a, a.dec) EXCEPT !.pt_rx = pt_rx, !.dec = 0]
        tr2 == <<"dec_deref">>
        restart(a3) ==
            IF reset
            THEN LET r == audio_start([a3 EXCEPT !.auplay = FALSE, !.fc = FALSE],
                                      srcok, playok, throk)
                 IN Res(r.a, r.ret, <<"auplay_deref", "fc_deref">> \o r.trace)
            ELSE Res(a3, 0, <<>>)
    IN
    IF a2.enc # 0 /\ aucodec_cmp(ac, aucodec_get(a2, a2.enc))
    THEN LET r == restart([mem_ref(a2, a2.enc) EXCEPT !.dec = a2.enc])
         IN Res(r.a, r.ret, tr2 \o <<"dec_share">> \o r.trace)
    ELSE IF ~allocok THEN Res(a2, ENOMEM, tr2)
    ELSE LET i == FreeSlot(a2)
             r == restart([a2 EXCEPT !.inst[i] = [ac |-> c, refs |-> 1], !.dec = i])
         IN Res(r.a, r.ret, tr2 \o <<"dec_alloc">> \o r.trace)

(***************************************************************************)
(* audio.c: the encode cycle                                               *)
(***************************************************************************)
\* the uint16_t nsamp that process_audio_encode() passes: mb->end / 4 for
\* G.722, mb->end / 2 otherwise, where mb holds psize bytes
nsamp_of(a) == ((IF a.is_g722 THEN a.psize \div 4 ELSE a.psize \div 2)) % Mod16

\* encode_rtp_send(): the audio object, the stream, the keepalive object
\* and the packets handed to the network; ok: the timestamp was advanced
encode_rtp_send(a, nsamp, encerr, outlen, neterr) ==
    IF a.enc = 0
    THEN [a |-> a, s |-> s, rtpkeep |-> rtpkeep, wire |-> <<>>, ok |-> FALSE,
          trace |-> <<>>]
    ELSE IF encerr # 0
    THEN [a |-> [a EXCEPT !.marker = FALSE], s |-> s, rtpkeep |-> rtpkeep,
          wire |-> <<>>, ok |-> FALSE, trace |-> <<"ench", "ench_failed">>]
    ELSE IF outlen > 0
    THEN LET r == stream_send(a.marker, a.pt_tx, a.ts_tx, outlen, neterr) IN
         IF r.ret # 0
         THEN [a |-> [a EXCEPT !.marker = FALSE], s |-> r.s, rtpkeep |-> r.rtpkeep,
               wire |-> r.wire, ok |-> FALSE, trace |-> <<"ench", "stream_send">>]
         ELSE [a |-> [a EXCEPT !.ts_tx = Add32(@, nsamp), !.marker = FALSE],
               s |-> r.s, rtpkeep |-> r.rtpkeep, wire |-> r.wire, ok |-> TRUE,
               trace |-> <<"ench", "stream_send">>]
    ELSE [a |-> [a EXCEPT !.ts_tx = Add32(@, nsamp), !.marker = FALSE],
          s |-> s, rtpkeep |-> rtpkeep, wire |-> <<>>, ok |-> TRUE,
          trace |-> <<"ench">>]

\* poll_aubuf_tx(): a timed read of one frame from the tx ring buffer
\* (got: the buffer had it), then process_audio_encode()
poll_aubuf_tx(a, got, encerr, outlen, neterr) ==
    IF ~got
    THEN [a |-> a, s |-> s, rtpkeep |-> rtpkeep, wire |-> <<>>, ok |-> FALSE,
          trace |-> <<>>]
    ELSE encode_rtp_send(a, nsamp_of(a), encerr, outlen, neterr)

\* the end of an encode cycle r in the domain ctx (capture callback, tx
\* thread or reactor): the objects it leaves, and what it did
Cycle(op, ctx, r, nsamp) ==
    /\ au' = r.a
    /\ s' = r.s
    /\ rtpkeep' = r.rtpkeep
    /\ aev' = [NoAev EXCEPT !.op = op, !.ctx = ctx, !.trace = r.trace,
                            !.wire = r.wire, !.ok = r.ok, !.nsamp = nsamp]
    /\ UNCHANGED <<sdp, cfg, jbuf, ev>>

\* the encode cycles counted: frames pulled, timestamps advanced, audio
\* packets sent
Counted(got, r) ==
    [ghost EXCEPT !.n_cyc = IF got THEN @ + 1 ELSE @,
                  !.n_ok = IF r.ok THEN @ + 1 ELSE @,
                  !.n_pkt = IF r.wire # <<>> /\ r.wire[1].err = 0
                            THEN @ + 1 ELSE @]

\* one run of poll_aubuf_tx() in the domain ctx
Poll(op, ctx, a, got, encerr, outlen, neterr) ==
    /\ got => ghost.n_cyc < ghost.cap
    /\ LET r == poll_aubuf_tx(a, got, encerr, outlen, neterr) IN
       /\ Cycle(op, ctx, r, IF got THEN nsamp_of(a) ELSE 0)
       /\ ghost' = Counted(got, r)

check_telev_follow_audio(a, st, rk, tel, neterr) ==
    IF tel = "none"
    THEN [a |-> a, s |-> st, rtpkeep |-> rk, wire |-> <<>>,
          trace |-> <<"telev_poll">>]
    ELSE LET marker == tel = "start"
             a1 == [a EXCEPT !.ts_tel = a.ts_tx]
             r == stream_send_on(st, rk, marker, a1.pt_tel_tx, a1.ts_tel,
                                 TelevLen, neterr)
         IN [a |-> a1, s |-> r.s, rtpkeep |-> r.rtpkeep, wire |-> r.wire,
             trace |-> <<"telev_poll", "stream_send">>]

\* check_telev(): the packet buffer mb_rtp is reset, telev_poll() is asked
\* for an event packet (tel: none queued, the first packet of an event with
\* the marker, a later one), and the packet is sent with the event's
\* timestamp
check_telev(a, st, rk, tel, neterr) ==
    IF tel = "none"
    THEN [a |-> a, s |-> st, rtpkeep |-> rk, wire |-> <<>>,
          trace |-> <<"telev_poll">>]
    ELSE LET marker == tel = "start"
             a1 == IF marker THEN [a EXCEPT !.ts_tel = a.ts_tx] ELSE a
             r == stream_send_on(st, rk, marker, a1.pt_tel_tx, a1.ts_tel,
                                 TelevLen, neterr)
         IN [a |-> a1, s |-> r.s, rtpkeep |-> r.rtpkeep, wire |-> r.wire,
             trace |-> <<"telev_poll", "stream_send">>]

\* ausrc_read_handler(): the capture device delivers a chunk, which goes to
\* the tx ring buffer; in poll mode a frame is pulled and encoded in the
\* callback (got is false as well when aubuf_write() failed); then
\* check_telev(). overlap: the tx thread is inside its encode path
AusrcRead(got, encerr, outlen, neterr, tel) ==
    /\ au.ausrc
    /\ tel # "none" => ghost.n_tel < ghost.telcap
    /\ LET polls == au.aubuf_tx /\ au.mode = "poll"
           got1 == got /\ polls
           r == IF polls THEN poll_aubuf_tx(au, got, encerr, outlen, neterr)
                ELSE [a |-> au, s |-> s, rtpkeep |-> rtpkeep, wire |-> <<>>,
                      ok |-> FALSE, trace |-> <<>>]
           c == check_telev(r.a, r.s, r.rtpkeep, tel, neterr)
       IN
       /\ got1 => ghost.n_cyc < ghost.cap
       /\ au' = c.a
       /\ s' = c.s
       /\ rtpkeep' = c.rtpkeep
       /\ ghost' = [Counted(got1, r) EXCEPT
                      !.n_tel = IF tel # "none" THEN @ + 1 ELSE @]
       /\ aev' = [NoAev EXCEPT !.op = "ausrc_read", !.ctx = "ausrc",
                               !.trace = r.trace \o c.trace, !.wire = r.wire,
                               !.telwire = c.wire, !.ok = r.ok,
                               !.nsamp = IF got1 THEN nsamp_of(au) ELSE 0,
                               !.overlap = (au.thread = "enc")]
       /\ UNCHANGED <<sdp, cfg, jbuf, ev>>

\* tx_thread(): the loop condition
TxThreadCheck ==
    /\ au.thread = "run"
    /\ au' = [au EXCEPT !.thread = IF au.run_tx THEN "poll" ELSE "exited"]
    /\ aev' = [NoAev EXCEPT !.op = "tx_thread", !.ctx = "thread"]
    /\ UNCHANGED <<sdp, cfg, s, jbuf, rtpkeep, ev, ghost>>

\* tx_thread(), poll_aubuf_tx(): the timed read of the tx ring buffer; with
\* a frame the thread goes on to encode it, without one it sleeps
TxThreadPoll(got) ==
    /\ au.thread = "poll"
    /\ got => ghost.n_cyc < ghost.cap
    /\ au' = [au EXCEPT !.thread = IF got THEN "enc" ELSE "run"]
    /\ ghost' = [ghost EXCEPT !.n_cyc = IF got THEN @ + 1 ELSE @]
    /\ aev' = [NoAev EXCEPT !.op = "tx_pull", !.ctx = "thread"]
    /\ UNCHANGED <<sdp, cfg, s, jbuf, rtpkeep, ev>>

\* tx_thread(), process_audio_encode(): the frame is encoded and sent
TxThreadEncode(encerr, outlen, neterr) ==
    /\ au.thread = "enc"
    /\ LET r == encode_rtp_send([au EXCEPT !.thread = "run"], nsamp_of(au),
                                encerr, outlen, neterr)
       IN /\ Cycle("tx_poll", "thread", r, nsamp_of(au))
          /\ ghost' = Counted(FALSE, r)

\* timeout_tx(): the 5 ms timer of the reactor
TimeoutTx(got, encerr, outlen, neterr) ==
    /\ au.alive /\ au.rpc = "idle" /\ au.tmr_tx
    /\ Poll("timeout_tx", "reactor", au, got, encerr, outlen, neterr)

(***************************************************************************)
(* audio.c: the operations of the reactor thread                           *)
(***************************************************************************)
\* the reactor thread is free to run a call on the audio object
Reactor == au.alive /\ au.rpc = "idle"

\* a call of the reactor that returns at once
AudioCall(op, r) ==
    /\ au' = r.a
    /\ aev' = [NoAev EXCEPT !.op = op, !.ctx = "reactor", !.ret = r.ret,
                            !.trace = r.trace]
    /\ UNCHANGED <<sdp, cfg, s, jbuf, rtpkeep, ev, ghost>>

AudioEncoderSet(c, allocok, srcok, playok, throk) ==
    /\ Reactor
    /\ AudioCall("audio_encoder_set",
                 audio_encoder_set(au, c, AuCodecs[c].pt, allocok, srcok, playok, throk))

AudioDecoderSet(c, allocok, srcok, playok, throk) ==
    /\ Reactor
    /\ AudioCall("audio_decoder_set",
                 audio_decoder_set(au, c, AuCodecs[c].pt, allocok, srcok, playok, throk))

AudioStart(srcok, playok, throk) ==
    /\ Reactor
    /\ AudioCall("audio_start", audio_start(au, srcok, playok, throk))

\* audio_destructor() after audio_stop(): what it releases, in its order
\* (the ring buffers are gone by then)
destructor_calls ==
    <<"enc_deref", "dec_deref", "mb_rtp_deref", "mb_dec_deref", "strm_deref",
      "telev_deref">>

\* audio_destructor() after audio_stop(): the codec states are released
audio_destructor(a) ==
    [mem_deref(mem_deref(a, a.enc), a.dec) EXCEPT !.enc = 0, !.dec = 0,
                                                  !.alive = FALSE]

\* audio_stop(), or audio_destructor() (destroy), up to pthread_join(); in
\* tmr mode and poll mode, and with no tx thread, to its end
AudioStop(destroy) ==
    /\ Reactor
    /\ IF au.mode \in {"thread", "thread_realtime"} /\ au.run_tx
       THEN AudioCall(IF destroy THEN "audio_destructor" ELSE "audio_stop",
                      Res([au EXCEPT !.run_tx = FALSE,
                                     !.rpc = IF destroy THEN "destroy_join"
                                             ELSE "stop_join"],
                          0, <<"run_tx_clear">>))
       ELSE LET a1 == IF au.mode = "tmr" THEN [au EXCEPT !.tmr_tx = FALSE] ELSE au
                tr1 == IF au.mode = "tmr" THEN <<"tmr_cancel">> ELSE <<>>
                r == audio_stop_devices(a1)
            IN AudioCall(IF destroy THEN "audio_destructor" ELSE "audio_stop",
                         Res(IF destroy THEN audio_destructor(r.a) ELSE r.a,
                             0, tr1 \o r.trace
                                \o (IF destroy THEN destructor_calls ELSE <<>>)))

\* pthread_join() returns when the tx thread has left its loop; audio_stop()
\* goes on to its end
AudioJoin ==
    /\ au.rpc \in {"stop_join", "destroy_join"}
    /\ au.thread = "exited"
    /\ LET destroy == au.rpc = "destroy_join"
           r == audio_stop_devices([au EXCEPT !.thread = "none", !.nthreads = @ - 1,
                                              !.rpc = "idle"])
       IN AudioCall(IF destroy THEN "audio_destructor" ELSE "audio_stop",
                    Res(IF destroy THEN audio_destructor(r.a) ELSE r.a,
                        0, <<"pthread_join">> \o r.trace
                           \o (IF destroy THEN destructor_calls ELSE <<>>)))

\* sdp_media_lformat(): the local format with this payload type, 0 if none
lformat(pt) ==
    IF \E c \in DOMAIN AuCodecs : AuCodecs[c].pt = pt
    THEN CHOOSE c \in DOMAIN AuCodecs : AuCodecs[c].pt = pt
    ELSE 0

RECURSIVE dech_loop_ignore_error(_, _, _, _, _)
dech_loop_ignore_error(n, left, consume, errat, calls) ==
    LET c == calls + 1
        err == (errat = c)
        l == IF err \/ consume >= left THEN (IF err THEN left ELSE 0)
             ELSE left - consume
    IN IF n # 0 /\ l > 0
       THEN dech_loop_ignore_error(n - 1, l, consume, errat, c)
       ELSE [calls |-> c, err |-> err, left |-> l]

\* audio_stream_decode(): do { err = dech(...) } while (n-- && left && !err);
\* left: bytes of the packet not yet read (0 for no packet); consume: bytes
\* one call of dech reads; errat: the call at which dech fails (0: never);
\* calls: the calls made so far
RECURSIVE dech_loop(_, _, _, _, _)
dech_loop(n, left, consume, errat, calls) ==
    LET c == calls + 1
        err == (errat = c)
        l == IF err \/ consume >= left THEN (IF err THEN left ELSE 0)
             ELSE left - consume
    IN IF n # 0 /\ l > 0 /\ ~err
       THEN dech_loop(n - 1, l, consume, errat, c)
       ELSE [calls |-> c, err |-> err, left |-> l]

audio_stream_decode_write_anyway(a, left, consume, errat) ==
    IF a.dec = 0 THEN [ret |-> 0, trace |-> <<>>, rxw |-> FALSE, ndech |-> 0,
                       left |-> left]
    ELSE LET r == dech_loop(DechCap, left, consume, errat, 0) IN
         [ret |-> IF r.err THEN EIO ELSE 0,
          trace |-> <<"dech">>
                    \o (IF r.err THEN <<"dech_failed">> ELSE <<>>)
                    \o (IF a.fc THEN <<"aufilt_chain_decode">> ELSE <<>>)
                    \o (IF a.aubuf_rx THEN <<"aubuf_write">> ELSE <<>>),
          rxw |-> a.aubuf_rx, ndech |-> r.calls, left |-> r.left]

\* audio_stream_decode(): the decoder loop, the filter chain, and the write
\* to the rx ring buffer (rxw)
audio_stream_decode(a, left, consume, errat) ==
    IF a.dec = 0 THEN [ret |-> 0, trace |-> <<>>, rxw |-> FALSE, ndech |-> 0,
                       left |-> left]
    ELSE LET r == dech_loop(DechCap, left, consume, errat, 0) IN
         IF r.err
         THEN [ret |-> EIO, trace |-> <<"dech", "dech_failed">>,
               rxw |-> FALSE, ndech |-> r.calls, left |-> r.left]
         ELSE [ret |-> 0,
               trace |-> <<"dech">>
                         \o (IF a.fc THEN <<"aufilt_chain_decode">> ELSE <<>>)
                         \o (IF a.aubuf_rx THEN <<"aubuf_write">> ELSE <<>>),
               rxw |-> a.aubuf_rx, ndech |-> r.calls, left |-> r.left]

stream_recv_branch_header_first(a, pt, hasmb) ==
    IF pt = a.pt_tel_rx THEN "telev"
    ELSE IF pt = PT_CN THEN "cn"
    ELSE IF ~hasmb THEN "out"
    ELSE IF pt # a.pt_rx THEN "pt_handler"
    ELSE "out"

\* stream_recv_handler(): the order of its tests
stream_recv_branch(a, pt, hasmb) ==
    IF ~hasmb THEN "out"
    ELSE IF pt = a.pt_tel_rx THEN "telev"
    ELSE IF pt = PT_CN THEN "cn"
    ELSE IF pt # a.pt_rx THEN "pt_handler"
    ELSE "out"

\* audio_ptime_tx_set(): psize is left as it is
audio_ptime_tx_set(a, ptime_tx) ==
    IF ptime_tx # a.ptime_tx THEN [a EXCEPT !.ptime_tx = ptime_tx] ELSE a

\* audio_sdp_attr_decode(): the remote ptime attribute, when there is one
AudioSdpAttrDecode(hasattr, ptime) ==
    /\ Reactor
    /\ au' = IF hasattr THEN audio_ptime_tx_set(au, ptime) ELSE au
    /\ aev' = [NoAev EXCEPT !.op = "sdp_attr_decode", !.ctx = "reactor"]
    /\ UNCHANGED <<sdp, cfg, s, jbuf, rtpkeep, ev, ghost>>

\* audio_enable_telev()
AudioEnableTelev(pt_tx, pt_rx) ==
    /\ Reactor
    /\ au' = [au EXCEPT !.pt_tel_tx = pt_tx, !.pt_tel_rx = pt_rx]
    /\ aev' = [NoAev EXCEPT !.op = "enable_telev", !.ctx = "reactor"]
    /\ UNCHANGED <<sdp, cfg, s, jbuf, rtpkeep, ev, ghost>>

\* stream_recv_handler(): a packet (or, with no payload, a loss) from the
\* stream; pt_handler() and audio_stream_decode()
AudioRecvFrames(pt, left, consume, errat, allocok, srcok, playok, throk) ==
    /\ Reactor
    /\ LET hasmb == left > 0
           decode(a, tr, found) ==
               \E d \in {audio_stream_decode(a, left, consume, errat)} :
               /\ au' = a
               /\ aev' = [NoAev EXCEPT !.op = "recv", !.ctx = "reactor", !.pt = pt,
                             !.found = found, !.mb = hasmb,
                             !.trace = tr \o d.trace, !.rxw = d.rxw,
                             !.ndech = d.ndech, !.left = d.left,
                             !.errat = errat,
                             !.dcodec = IF a.dec # 0 THEN a.inst[a.dec].ac ELSE 0]
           drop(a, tr, found, ret) ==
               /\ au' = a
               /\ aev' = [NoAev EXCEPT !.op = "recv", !.ctx = "reactor", !.pt = pt,
                             !.found = found, !.mb = hasmb, !.ret = ret,
                             !.trace = tr]
           b == stream_recv_branch(au, pt, hasmb)
       IN
       IF b = "telev" THEN drop(au, <<"telev_recv">>, FALSE, 0)
       ELSE IF b = "cn" THEN drop(au, <<>>, FALSE, 0)
       ELSE IF b = "pt_handler"
       THEN IF lformat(pt) = 0 THEN drop(au, <<>>, FALSE, ENOENT)
            ELSE \E r \in {audio_decoder_set(au, lformat(pt), pt, allocok,
                                              srcok, playok, throk)} :
                    IF r.ret # 0 THEN drop(r.a, r.trace, TRUE, r.ret)
                    ELSE decode(r.a, r.trace, TRUE)
       ELSE decode(au, <<>>, FALSE)
    /\ UNCHANGED <<sdp, cfg, s, jbuf, rtpkeep, ev, ghost>>

\* stream_recv_handler() for a packet of one frame, or a loss
AudioRecv(pt, hasmb, allocok, srcok, playok, throk, decerr) ==
    AudioRecvFrames(pt, IF hasmb THEN 1 ELSE 0, 1, IF decerr # 0 THEN 1 ELSE 0,
                    allocok, srcok, playok, throk)

(***************************************************************************)
(* Receive path: packets, hold and resume                                  *)
(***************************************************************************)
InitRecv ==
    /\ InitCommon
    /\ s = stream_alloc
    /\ cfg \in [rtpkeep : {""}, rtcp_mux : {FALSE}, jbuf_min : 0 .. (MaxJbuf - 1)]

NextRecv ==
    \/ \E ssrc \in SsrcVals, seq \in SeqVals, len \in LenVals,
          putok \in BOOLEAN, pos \in 1 .. MaxJbuf :
          /\ cfg.jbuf_min = 0 => ~putok
          /\ ~putok => pos = 1
          /\ pos <= Len(jbuf) + 1
          /\ RtpRecv(ssrc, seq, len, putok, pos)
    \/ \E hold \in BOOLEAN : StreamHold(hold)
    \/ StreamReset

SpecRecv == InitRecv /\ [][NextRecv]_vars

(***************************************************************************)
(* Loss classification over the whole 16-bit range: one packet on a        *)
(* stream without jitter buffer, from each stored sequence number          *)
(***************************************************************************)
InitLost ==
    /\ InitCommon
    /\ cfg = [rtpkeep |-> "", rtcp_mux |-> FALSE, jbuf_min |-> 0]
    /\ \E p \in PseqStart :
          s = [stream_alloc EXCEPT !.pseq = p,
                                   !.ssrc_rx = IF p = Unset32 THEN 0 ELSE 1]

NextLost ==
    /\ ev.op = "init"
    /\ \E seq \in Seq16 : RtpRecv(1, seq, 1, FALSE, 1)

SpecLost == InitLost /\ [][NextLost]_vars

(***************************************************************************)
(* Send path and keepalive: negotiation, sends, periods                    *)
(***************************************************************************)
InitKeep ==
    /\ InitCommon
    /\ s = stream_alloc
    /\ cfg \in [rtpkeep : MethodVals, rtcp_mux : BOOLEAN, jbuf_min : {0}]

NextKeep ==
    \/ \E d \in RemoteDescs : SdpUpdate(d)
    \/ StreamUpdate
    \/ StreamReset
    \/ \E hold \in BOOLEAN : StreamHold(hold)
    \/ \E marker \in BOOLEAN, pt \in PtVals, ts \in TsVals, len \in TxLenVals,
          neterr \in NetErrs : StreamSend(marker, pt, ts, len, neterr)
    \/ \E neterr \in NetErrs : Timeout(neterr)

SpecKeep == InitKeep /\ [][NextKeep]_vars

(***************************************************************************)
(* Keepalive objects of a stream: negotiation, resets, sends, timeouts,    *)
(* and the destruction of the stream                                       *)
(***************************************************************************)
InitKeepLife ==
    /\ InitCommon
    /\ s = stream_alloc
    /\ cfg \in [rtpkeep : {"", "zero"}, rtcp_mux : {FALSE}, jbuf_min : {0}]

NextKeepLife ==
    /\ ~ghost.gone
    /\ \/ \E d \in RemoteDescs : SdpUpdate(d)
       \/ \E allocok \in BOOLEAN : StreamResetWith(allocok)
       \/ \E marker \in BOOLEAN, pt \in PtVals, ts \in TsVals, len \in TxLenVals,
             neterr \in NetErrs : StreamSend(marker, pt, ts, len, neterr)
       \/ \E neterr \in NetErrs : Timeout(neterr)
       \/ StreamDestroy

SpecKeepLife == InitKeepLife /\ [][NextKeepLife]_vars

(***************************************************************************)
(* Audio, codec life cycle: encoder and decoder sets, start, stop,         *)
(* received packets; poll mode                                             *)
(***************************************************************************)
InitAudioCommon ==
    /\ sdp = sdp_media_add
    /\ cfg = [rtpkeep |-> "", rtcp_mux |-> FALSE, jbuf_min |-> 0]
    /\ s = stream_alloc
    /\ jbuf = <<>>
    /\ rtpkeep = NoRk
    /\ ev = NoEv
    /\ aev = NoAev

InitCodec ==
    /\ InitAudioCommon
    /\ ghost = NoGhost
    /\ \E sf \in BOOLEAN, af \in BOOLEAN :
          au = [audio_alloc("poll", 20) EXCEPT !.src_first = sf, !.aufilt = af]

NextCodec ==
    \/ \E c \in AudioCodecIds, f \in {"none", "alloc", "src"} :
          AudioEncoderSet(c, f # "alloc", f # "src", TRUE, TRUE)
    \/ \E c \in AudioCodecIds, f \in {"none", "alloc", "play"} :
          AudioDecoderSet(c, f # "alloc", TRUE, f # "play", TRUE)
    \/ \E f \in {"none", "src", "play"} :
          AudioStart(f # "src", f # "play", TRUE)
    \/ \E destroy \in BOOLEAN : AudioStop(destroy)
    \/ \E pt \in RxPtVals, hasmb \in BOOLEAN, f \in {"none", "alloc", "dech"} :
          /\ ~hasmb => (pt = 0 /\ f = "none")
          /\ AudioRecv(pt, hasmb, f # "alloc", TRUE, TRUE, TRUE,
                       IF f = "dech" THEN EIO ELSE 0)

SpecCodec == InitCodec /\ [][NextCodec]_vars

(***************************************************************************)
(* Audio, tx thread: thread and thread_realtime mode                       *)
(***************************************************************************)
InitThread ==
    /\ InitAudioCommon
    /\ ghost = [NoGhost EXCEPT !.cap = MaxCyc]
    /\ \E m \in {"thread", "thread_realtime"} : au = audio_alloc(m, 20)

NextThread ==
    \/ \E c \in ThreadCodecIds, f \in {"none", "src", "thread"} :
          AudioEncoderSet(c, TRUE, f # "src", TRUE, f # "thread")
    \/ \E c \in ThreadCodecIds : AudioDecoderSet(c, TRUE, TRUE, TRUE, TRUE)
    \/ \E f \in {"none", "src", "thread"} :
          AudioStart(f # "src", TRUE, f # "thread")
    \/ \E destroy \in BOOLEAN : AudioStop(destroy)
    \/ AudioJoin
    \/ \E tel \in TelVals : AusrcRead(FALSE, 0, 0, 0, tel)
    \/ TxThreadCheck
    \/ \E got \in BOOLEAN : TxThreadPoll(got)
    \/ \E o \in {<<EIO, 0, 0>>, <<0, 1, 0>>} : TxThreadEncode(o[1], o[2], o[3])

SpecThread == InitThread /\ [][NextThread]_vars

(***************************************************************************)
(* Audio, encoder and decoder sets over every codec of the list, with an   *)
(* audio filter registered; poll mode                                      *)
(***************************************************************************)
InitSet ==
    /\ InitAudioCommon
    /\ ghost = NoGhost
    /\ \E sf \in BOOLEAN :
          au = [audio_alloc("poll", 20) EXCEPT !.src_first = sf, !.aufilt = TRUE]

NextSet ==
    \/ \E c \in DOMAIN AuCodecs, f \in {"none", "alloc", "src"} :
          AudioEncoderSet(c, f # "alloc", f # "src", TRUE, TRUE)
    \/ \E c \in DOMAIN AuCodecs, f \in {"none", "alloc", "play"} :
          AudioDecoderSet(c, f # "alloc", TRUE, f # "play", TRUE)
    \/ AudioStart(TRUE, TRUE, TRUE)
    \/ AudioStop(FALSE)

SpecSet == InitSet /\ [][NextSet]_vars

(***************************************************************************)
(* Audio, every scheduling mode: the reactor's calls, the capture          *)
(* callback, the tx thread and the tx timer                                *)
(***************************************************************************)
InitSched ==
    /\ InitAudioCommon
    /\ ghost = [NoGhost EXCEPT !.cap = MaxCycSched]
    /\ \E m \in {"poll", "tmr", "thread"} : au = audio_alloc(m, 20)

NextSched ==
    \/ \E c \in ThreadCodecIds, f \in {"none", "src", "thread"} :
          AudioEncoderSet(c, TRUE, f # "src", TRUE, f # "thread")
    \/ \E c \in ThreadCodecIds : AudioDecoderSet(c, TRUE, TRUE, TRUE, TRUE)
    \/ \E f \in {"none", "src", "thread"} :
          AudioStart(f # "src", TRUE, f # "thread")
    \/ \E destroy \in BOOLEAN : AudioStop(destroy)
    \/ AudioJoin
    \/ \E o \in SchedOutcomes, tel \in {"none", "start"} :
          AusrcRead(o[1], o[2], o[3], o[4], tel)
    \/ TxThreadCheck
    \/ \E got \in BOOLEAN : TxThreadPoll(got)
    \/ \E o \in SchedOutcomes : o[1] /\ TxThreadEncode(o[2], o[3], o[4])
    \/ \E o \in SchedOutcomes : TimeoutTx(o[1], o[2], o[3], o[4])

SpecSched == InitSched /\ [][NextSched]_vars

(***************************************************************************)
(* Audio, encode cycles: a started pipeline in poll mode with the remote   *)
(* address set, one codec, one packet time; the outgoing timestamp starts  *)
(* at 160 and, after 2^32 - 320 samples, stands at 2^32 - 160              *)
(***************************************************************************)
Started(c, ptime) ==
    audio_start(
        audio_encoder_set(audio_alloc("poll", ptime), c, AuCodecs[c].pt,
                          TRUE, TRUE, TRUE, TRUE).a,
        TRUE, TRUE, TRUE).a

InitTs ==
    /\ sdp = [sdp_media_add EXCEPT !.raddr = 1, !.rfmts = <<0>>]
    /\ cfg = [rtpkeep |-> "", rtcp_mux |-> FALSE, jbuf_min |-> 0]
    /\ s = stream_alloc
    /\ jbuf = <<>>
    /\ rtpkeep = NoRk
    /\ ev = NoEv
    /\ aev = NoAev
    /\ \E c \in DOMAIN AuCodecs, ptime \in PtimeVals, ts \in TsStarts :
          /\ au = [Started(c, ptime) EXCEPT !.ts_tx = ts, !.marker = (ts = TsStart)]
          /\ ghost = [NoGhost EXCEPT !.cap = MaxCycTs, !.ts0 = ts,
                                      !.n_pkt = IF ts = TsStart THEN 0 ELSE 1]

NextTs ==
    \E o \in {<<TRUE, EIO, 0, 0>>, <<TRUE, 0, 1, 0>>} :
        AusrcRead(o[1], o[2], o[3], o[4], "none")

SpecTs == InitTs /\ [][NextTs]_vars

(***************************************************************************)
(* Audio, telephone events: a started pipeline in each scheduling mode     *)
(* with the remote address set and telephone events enabled; capture       *)
(* chunks, with and without an event packet due, and the encode cycles of  *)
(* the mode                                                                *)
(***************************************************************************)
StartedIn(mode) ==
    audio_start(
        audio_encoder_set(audio_alloc(mode, 20), 1, AuCodecs[1].pt,
                          TRUE, TRUE, TRUE, TRUE).a,
        TRUE, TRUE, TRUE).a

InitTelev ==
    /\ sdp = [sdp_media_add EXCEPT !.raddr = 1, !.rfmts = <<0>>]
    /\ cfg = [rtpkeep |-> "", rtcp_mux |-> FALSE, jbuf_min |-> 0]
    /\ s = stream_alloc
    /\ jbuf = <<>>
    /\ rtpkeep = NoRk
    /\ ev = NoEv
    /\ aev = NoAev
    /\ ghost = [NoGhost EXCEPT !.cap = MaxCyc, !.telcap = MaxTelSeq]
    /\ \E m \in {"poll", "tmr", "thread"} :
          au = [StartedIn(m) EXCEPT !.pt_tel_tx = 101, !.pt_tel_rx = 101]

NextTelev ==
    \/ \E o \in SchedOutcomes, tel \in TelVals :
          /\ tel = "cont" => ghost.n_tel > 0
          /\ AusrcRead(o[1], o[2], o[3], o[4], tel)
    \/ TxThreadCheck
    \/ \E got \in BOOLEAN : TxThreadPoll(got)
    \/ \E o \in SchedOutcomes : o[1] /\ TxThreadEncode(o[2], o[3], o[4])
    \/ \E o \in SchedOutcomes : TimeoutTx(o[1], o[2], o[3], o[4])

SpecTelev == InitTelev /\ [][NextTelev]_vars

(***************************************************************************)
(* Bitrate sampler of the stream: stream_start(), traffic, and the         *)
(* periodic tmr_stats_handler()                                            *)
(***************************************************************************)
\* 1000 * 8 * b / diff in unbounded arithmetic; 8000 = 64 * 125, and the
\* division is done on 125 * b to stay within the integers of the checker
ExactBitrate(b, diff) ==
    LET m == 125 * b
    IN 64 * (m \div diff) + (64 * (m % diff)) \div diff

\* tmr_stats_handler(): 1000 * 8 * s->stats.b_tx / diff, in size_t: with 32
\* bits the product is taken modulo 2^32, that is 64 * (125 * b mod 2^26)
stats_bitrate(b, diff, bits) ==
    LET m == IF bits = 32 THEN (125 * b) % (2 ^ 26) ELSE 125 * b
    IN 64 * (m \div diff) + (64 * (m % diff)) \div diff

\* stream_start()
StreamStart ==
    /\ s' = [s EXCEPT !.tmr_stats = 1]
    /\ ev' = [NoEv EXCEPT !.op = "stream_start"]
    /\ UNCHANGED <<sdp, cfg, jbuf, rtpkeep, ghost, au, aev>>

\* stream_send() and rtp_recv() between two samples: the byte counters
StatsTraffic(btx, brx) ==
    /\ s.b_tx + btx <= MaxBytes
    /\ s.b_rx + brx <= MaxBytes
    /\ btx + brx > 0
    /\ s' = [s EXCEPT !.b_tx = @ + btx, !.b_rx = @ + brx]
    /\ ev' = [NoEv EXCEPT !.op = "traffic"]
    /\ UNCHANGED <<sdp, cfg, jbuf, rtpkeep, ghost, au, aev>>

\* tmr_stats_handler(); now: tmr_jiffies(). diff is (uint32_t)(now - ts),
\* which is now - ts for the times of NowVals
TmrStats(now) ==
    /\ s.tmr_stats # 0
    /\ LET s1 == [s EXCEPT !.tmr_stats = TMR_INTERVAL * 1000]
           diff == now - s.stats_ts
           s2 == IF s.stats_ts # 0
                 THEN [s1 EXCEPT
                         !.bitrate_tx = stats_bitrate(s.b_tx, diff,
                                                      ghost.size_bits),
                         !.bitrate_rx = stats_bitrate(s.b_rx, diff,
                                                      ghost.size_bits)]
                 ELSE s1
       IN s' = IF now <= s.stats_ts THEN s1
               ELSE [s2 EXCEPT !.b_tx = 0, !.b_rx = 0, !.stats_ts = now]
    /\ ev' = [NoEv EXCEPT !.op = "tmr_stats", !.now = now]
    /\ UNCHANGED <<sdp, cfg, jbuf, rtpkeep, ghost, au, aev>>

InitStats ==
    /\ sdp = sdp_media_add
    /\ cfg = [rtpkeep |-> "", rtcp_mux |-> FALSE, jbuf_min |-> 0]
    /\ s = stream_alloc
    /\ jbuf = <<>>
    /\ rtpkeep = NoRk
    /\ ev = NoEv
    /\ au = audio_alloc("poll", 20)
    /\ aev = NoAev
    /\ \E bits \in SizeBits : ghost = [NoGhost EXCEPT !.size_bits = bits]

NextStats ==
    \/ StreamStart
    \/ \E btx \in ByteVals, brx \in ByteVals : StatsTraffic(btx, brx)
    \/ \E now \in NowVals : TmrStats(now)

SpecStats == InitStats /\ [][NextStats]_vars

(***************************************************************************)
(* Audio, packet time: a started pipeline in poll mode; capture chunks,    *)
(* remote descriptions with and without a ptime attribute, encoder sets    *)
(***************************************************************************)
InitPtime ==
    /\ sdp = [sdp_media_add EXCEPT !.raddr = 1, !.rfmts = <<0>>]
    /\ cfg = [rtpkeep |-> "", rtcp_mux |-> FALSE, jbuf_min |-> 0]
    /\ s = stream_alloc
    /\ jbuf = <<>>
    /\ rtpkeep = NoRk
    /\ ev = NoEv
    /\ aev = NoAev
    /\ ghost = [NoGhost EXCEPT !.cap = MaxCyc]
    /\ au = Started(1, 20)

NextPtime ==
    \/ \E o \in SchedOutcomes : AusrcRead(o[1], o[2], o[3], o[4], "none")
    \/ \E hasattr \in BOOLEAN, p \in SdpPtimeVals :
          AudioSdpAttrDecode(hasattr, p)
    \/ \E c \in ThreadCodecIds : AudioEncoderSet(c, TRUE, TRUE, TRUE, TRUE)

SpecPtime == InitPtime /\ [][NextPtime]_vars

(***************************************************************************)
(* Audio, frame by frame: a started pipeline in poll mode with PCMU in     *)
(* both directions and the remote address set; frames from the capture     *)
(* device and packets from the stream, with codec errors                   *)
(***************************************************************************)
StartedBoth(c) ==
    audio_start(
        audio_decoder_set(
            audio_encoder_set(audio_alloc("poll", 20), c, AuCodecs[c].pt,
                              TRUE, TRUE, TRUE, TRUE).a,
            c, AuCodecs[c].pt, TRUE, TRUE, TRUE, TRUE).a,
        TRUE, TRUE, TRUE).a

InitFrame ==
    /\ sdp = [sdp_media_add EXCEPT !.raddr = 1, !.rfmts = <<0>>]
    /\ cfg = [rtpkeep |-> "", rtcp_mux |-> FALSE, jbuf_min |-> 0]
    /\ s = stream_alloc
    /\ jbuf = <<>>
    /\ rtpkeep = NoRk
    /\ ev = NoEv
    /\ aev = NoAev
    /\ ghost = [NoGhost EXCEPT !.cap = MaxCyc]
    /\ au \in {StartedBoth(1), Started(1, 20)}

NextFrame ==
    \/ \E o \in CycleOutcomes : AusrcRead(o[1], o[2], o[3], o[4], "none")
    \/ \E pt \in RxPtVals \cup TelPtVals, hasmb \in BOOLEAN, decerr \in {0, EIO} :
          AudioRecv(pt, hasmb, TRUE, TRUE, TRUE, TRUE, decerr)
    \/ \E pt \in TelPtVals : AudioEnableTelev(pt, pt)

SpecFrame == InitFrame /\ [][NextFrame]_vars

(***************************************************************************)
(* Audio, the decode loop: a started pipeline in poll mode; packets of     *)
(* several frames, decoders that read all, some or nothing of a packet     *)
(* or fail, and capture chunks in between                                  *)
(***************************************************************************)
InitDecode ==
    /\ sdp = [sdp_media_add EXCEPT !.raddr = 1, !.rfmts = <<0>>]
    /\ cfg = [rtpkeep |-> "", rtcp_mux |-> FALSE, jbuf_min |-> 0]
    /\ s = stream_alloc
    /\ jbuf = <<>>
    /\ rtpkeep = NoRk
    /\ ev = NoEv
    /\ aev = NoAev
    /\ ghost = [NoGhost EXCEPT !.cap = MaxCycSched]
    /\ au \in {StartedBoth(1), Started(1, 20)}

NextDecode ==
    \/ \E o \in SchedOutcomes : AusrcRead(o[1], o[2], o[3], o[4], "none")
    \/ \E pt \in {0, 8, 5}, left \in 0 .. MaxLeft, consume \in 0 .. 2,
          errat \in {0, 1, 2} :
          AudioRecvFrames(pt, left, consume, errat, TRUE, TRUE, TRUE, TRUE)

SpecDecode == InitDecode /\ [][NextDecode]_vars

\* the timer of re's reactor: a running timer fires after its delay
SpecKeepLive ==
    InitKeep /\ [][NextKeep]_vars /\ WF_vars(\E neterr \in NetErrs : Timeout(neterr))

(***************************************************************************)
(* Claims                                                                  *)
(***************************************************************************)
\* the rtph() calls of the last operation, by payload
Calls(mb) == {i \in DOMAIN ev.trace : ev.trace[i].e = "rtph" /\ ev.trace[i].mb = mb}

\* a packet was classified against a stored sequence number
Classified == ev.op = "rtp_recv" /\ ev.passed /\ ev.chdr = "in" /\ ev.pseq0 # -1

\* d = (seq - last) mod 65536 of the packet classified last
ClaimDelta == (ev.cseq - ev.pseq0) % 65536

\* C1: a packet with d = (seq - last) mod 65536 in [1, 2999] against a stored
\* sequence number is classified as d - 1 lost packets and its sequence
\* number is stored, across the 65535 -> 0 wraparound too.
C1_ForwardLoss ==
    (Classified /\ ClaimDelta >= 1 /\ ClaimDelta <= 2999)
        => (ev.lost = ClaimDelta - 1 /\ s.pseq = ev.cseq)

C1_Witness ==
    /\ Classified /\ ev.pseq0 = 65535 /\ ev.cseq = 2998
    /\ ev.lost = 2998 /\ s.pseq = 2998

\* C2: a packet whose sequence number equals the stored one (d = 0) brings no
\* rtph() call with a null payload and leaves the stored number as it was.
C2_Duplicate ==
    (Classified /\ ClaimDelta = 0)
        => (Calls("null") = {} /\ s.pseq = ev.pseq0)

C2_Witness ==
    /\ Classified /\ ev.pseq0 = 3000 /\ ev.cseq = 3000
    /\ ev.lost = -1 /\ Calls("null") = {} /\ s.pseq = 3000

\* C3: a packet with d >= 65436 (a step backwards) is ignored: no rtph() call
\* with a null payload, the stored sequence number as it was.
C3_Backward ==
    (Classified /\ ClaimDelta >= 65436)
        => (ev.lost < 0 /\ Calls("null") = {} /\ s.pseq = ev.pseq0)

C3_Witness ==
    /\ Classified /\ ev.pseq0 = 0 /\ ev.cseq = 65436
    /\ ev.lost = -2 /\ Calls("null") = {} /\ s.pseq = 0

\* C4: a packet with d in [3000, 65436) reports no loss, brings no rtph() call
\* with a null payload, and its sequence number is stored; d = 2999 is still a
\* loss of 2998, d = 3000 and d = 65435 are jumps, d = 65436 is ignored.
C4_ForwardJump ==
    /\ (Classified /\ ClaimDelta >= 3000 /\ ClaimDelta < 65436)
           => (ev.lost = 0 /\ Calls("null") = {} /\ s.pseq = ev.cseq)
    /\ (Classified /\ ClaimDelta = 2999)
           => (ev.lost = 2998 /\ Cardinality(Calls("null")) = 1 /\ s.pseq = ev.cseq)
    /\ (Classified /\ ClaimDelta = 65436)
           => (ev.lost = -2 /\ Calls("null") = {} /\ s.pseq = ev.pseq0)

C4_Witness ==
    /\ Classified /\ ev.pseq0 = 65535 /\ ev.cseq = 65434
    /\ ClaimDelta = 65435 /\ ev.lost = 0 /\ s.pseq = 65434

\* the jitter-buffer calls of the last operation, by name
JbufCalls(e) == {i \in DOMAIN ev.trace : ev.trace[i].e = e}

\* a packet passed the drop checks in the last operation
Recv == ev.op = "rtp_recv" /\ ev.passed

\* C5 as claimed: the stored sequence number is unset or the sequence number
\* of the last packet that classification admitted.
C5_LastAdmittedPacket == s.pseq = -1 \/ s.pseq = ghost.adm_pkt

\* C5 as amended: the stored sequence number is unset exactly as long as no
\* header was admitted, and is otherwise the sequence number of the last
\* header admitted; that header is the last admitted packet's unless a zeroed
\* header (jitter-buffer underrun after playout started) was admitted since,
\* which stores 0.  The first header classified on a fresh stream is a
\* packet's, yields loss 0 and is adopted.
C5_LastAdmittedHeader ==
    /\ (s.pseq = -1) <=> (ghost.adm_hdr = -1)
    /\ s.pseq # -1 => (s.pseq = ghost.adm_hdr /\ s.pseq \in 0 .. 65535)
    /\ ghost.adm_hdr # ghost.adm_pkt
           => (ghost.adm_hdr = 0 /\ cfg.jbuf_min > 0 /\ s.jbuf_started)
    /\ (Recv /\ ev.chdr # "none" /\ ev.pseq0 = -1)
           => (ev.chdr # "zero" /\ ev.lost = 0 /\ s.pseq = ev.cseq
               /\ Calls("null") = {})

C5_Witness ==
    /\ Recv /\ ev.chdr = "zero" /\ ev.pseq0 = 40000 /\ ev.lost = 0
    /\ s.pseq = 0 /\ ghost.adm_pkt = 40000

\* C6 as claimed: every packet that passes the drop checks and is followed
\* by a classification: on a positive loss count one rtph() call with a null
\* payload, then the call with the real packet; otherwise no call with a null
\* payload and the real packet delivered once.
C6_LossThenPacket ==
    (Recv /\ ev.chdr # "none") =>
        IF ev.lost > 0
        THEN /\ Cardinality(Calls("null")) = 1
             /\ Cardinality(Calls("data")) = 1
             /\ \A i \in Calls("null"), j \in Calls("data") : i < j
        ELSE /\ Calls("null") = {}
             /\ Cardinality(Calls("data")) = 1

\* C6 as amended: the claim holds whenever a packet is there to deliver (no
\* jitter buffer: the arriving packet; jitter buffer: the dequeued packet).
\* When the dequeue fails after playout started, the zeroed header is
\* delivered once with a null payload, after one more null-payload call if
\* its classification reports a loss; when it fails before playout started,
\* rtph() is not called at all.
C6_LossThenPacketIfDequeued ==
    /\ (Recv /\ ev.chdr \in {"in", "deq"}) =>
           /\ Cardinality(Calls("data")) = 1
           /\ \A j \in Calls("data") :
                 /\ j = Len(ev.trace)
                 /\ ev.trace[j].hdr = ev.chdr
                 /\ ev.trace[j].seq = ev.cseq
           /\ IF ev.lost > 0
              THEN /\ Cardinality(Calls("null")) = 1
                   /\ \A i \in Calls("null"), j \in Calls("data") : i < j
              ELSE Calls("null") = {}
    /\ (Recv /\ ev.chdr = "zero") =>
           /\ Calls("data") = {}
           /\ Cardinality(Calls("null")) = (IF ev.lost > 0 THEN 2 ELSE 1)
           /\ ev.trace[Len(ev.trace)].hdr = "zero"
    /\ (Recv /\ ev.chdr = "none") =>
           /\ Calls("data") = {} /\ Calls("null") = {}
           /\ cfg.jbuf_min > 0 /\ ~s.jbuf_started

C6_Witness ==
    /\ Recv /\ ev.chdr = "deq" /\ ev.lost > 0
    /\ Cardinality(Calls("null")) = 1 /\ Cardinality(Calls("data")) = 1

\* C7: on a stream with a jitter buffer, a packet (past the drop checks)
\* whose SSRC differs from the SSRC of the packet before it brings exactly
\* one jbuf_flush(), before its jbuf_put(); the first packet of the stream
\* and a packet with the SSRC of the packet before it bring none.
C7_FlushOnSsrcChange ==
    (Recv /\ cfg.jbuf_min > 0) =>
        IF ev.seen0 /\ ev.ssrc # ev.ssrc0
        THEN /\ Cardinality(JbufCalls("flush")) = 1
             /\ \A i \in JbufCalls("flush"), j \in JbufCalls("put") : i < j
        ELSE JbufCalls("flush") = {}

\* C8: a stream_send() on a stream whose remote address is not set, or whose
\* negotiated direction is not sendrecv, returns 0, hands no packet to the
\* network and leaves the tx counters and the keepalive state as they were;
\* a stream_send() hands a packet to the network only if the remote address
\* is set and the negotiated direction is sendrecv.
C8_SendGated ==
    [][ev'.op = "stream_send" =>
          /\ (sdp.raddr = 0 \/ DirAnd(sdp.ldir, sdp.rdir) # SDP_SENDRECV)
                 => (ev'.ret = 0 /\ ev'.wire = <<>> /\ s' = s
                     /\ rtpkeep' = rtpkeep)
          /\ ev'.wire # <<>>
                 => (sdp.raddr # 0 /\ DirAnd(sdp.ldir, sdp.rdir) = SDP_SENDRECV)
      ]_vars

C8_Witness ==
    /\ ev.op = "stream_send" /\ ~ev.passed /\ ev.wire = <<>>
    /\ sdp.raddr # 0 /\ sdp_media_dir # SDP_SENDRECV
    /\ s.n_tx = 1 /\ rtpkeep.live /\ rtpkeep.flag

\* a dynamic payload type the remote format table does not use
FreeDyn(fmts) == {pt \in PT_DYN_MIN .. PT_DYN_MAX : ~HasPt(fmts, pt)}

\* C9 as claimed: the timeout of a period with a refresh sends no keepalive,
\* the timeout of a period without a refresh sends exactly one packet, for
\* each of the methods zero, stun, dyna and rtcp.
C9_OneSendPerIdlePeriod ==
    [][(ev'.op = "timeout" /\ rtpkeep.method \in {"zero", "stun", "dyna", "rtcp"}) =>
          IF ghost.refreshed
          THEN ev'.wire = <<>>
          ELSE Len(ev'.wire) = 1
      ]_vars

\* C9 as amended: the timeout of a period with a refresh does not call
\* send_keepalive() and sends nothing; the timeout of a period without a
\* refresh calls send_keepalive() exactly once with the configured method,
\* which sends one datagram to the remote RTP address for zero, one STUN
\* indication for stun, one RTP packet with an unused dynamic payload type
\* for dyna if there is one and nothing otherwise, and nothing for rtcp and
\* for an unknown method.
C9_KeepalivePerPeriod ==
    [][ev'.op = "timeout" =>
          IF ghost.refreshed
          THEN ev'.ka = 0 /\ ev'.wire = <<>>
          ELSE /\ ev'.ka = 1 /\ ev'.kam = rtpkeep.method
               /\ Len(ev'.wire) <= 1
               /\ rtpkeep.method = "zero" =>
                      /\ Len(ev'.wire) = 1
                      /\ ev'.wire[1].kind = "udp"
                      /\ ev'.wire[1].dst = sdp.raddr
               /\ rtpkeep.method = "stun" =>
                      /\ Len(ev'.wire) = 1
                      /\ ev'.wire[1].kind = "stun"
                      /\ ev'.wire[1].dst = sdp.raddr
               /\ rtpkeep.method = "dyna" =>
                      IF FreeDyn(sdp.rfmts) # {}
                      THEN /\ Len(ev'.wire) = 1
                           /\ ev'.wire[1].kind = "rtp"
                           /\ ev'.wire[1].pt \in FreeDyn(sdp.rfmts)
                           /\ ev'.wire[1].ts = rtpkeep.ts
                      ELSE ev'.wire = <<>> /\ ev'.ret = ENOENT
               /\ rtpkeep.method \notin {"zero", "stun", "dyna"} =>
                      ev'.wire = <<>>
      ]_vars

C9_Witness ==
    /\ ev.op = "timeout" /\ ev.ka = 1 /\ ev.kam = "zero"
    /\ Len(ev.wire) = 1 /\ ev.wire[1].kind = "udp" /\ ev.wire[1].dst = sdp.raddr
    /\ s.n_tx > 0 /\ ~ghost.refreshed

\* C10: a stream_send() that hands an RTP packet to the network sets the
\* flag of the stream's keepalive object and records the packet's timestamp;
\* the flag of a keepalive object goes from set to clear only in a timeout,
\* which then sends no keepalive; a timeout that finds the flag set clears it.
C10_ActivityFlag ==
    [][/\ (ev'.op = "stream_send" /\ ev'.wire # <<>> /\ rtpkeep.live)
              => (rtpkeep'.flag /\ rtpkeep'.ts = ev'.wire[1].ts)
       /\ (rtpkeep.flag /\ ~rtpkeep'.flag /\ rtpkeep'.id = rtpkeep.id)
              => (ev'.op = "timeout" /\ ev'.ka = 0 /\ ev'.wire = <<>>)
       /\ (ev'.op = "timeout" /\ rtpkeep.flag) => ~rtpkeep'.flag
      ]_vars

C10_Witness ==
    /\ ev.op = "timeout" /\ ev.ka = 0 /\ rtpkeep.live /\ ~rtpkeep.flag
    /\ rtpkeep.ts = 320 /\ s.n_tx = 1

\* the keepalive object is gone, or its timer has just fired
FiredOrGone == ~rtpkeep.live \/ ev.op = "timeout"

\* C11: a keepalive object's timer runs from its allocation to its
\* destruction (no object: no timer); every timeout leaves it running with
\* the 15 s period, whether the flag was set or the keepalive was sent,
\* failed or found no payload type; so the timeout comes again and again
\* as long as the object lives.
C11_RearmedEveryPeriod ==
    /\ [](rtpkeep.live <=> rtpkeep.tmr > 0)
    /\ [][ev'.op = "timeout" =>
             (rtpkeep'.live /\ rtpkeep'.id = rtpkeep.id
              /\ rtpkeep'.tmr = Tr_UDP * 1000)]_vars
    /\ []<>FiredOrGone

C11_Witness ==
    /\ ev.op = "timeout" /\ ev.ka = 1 /\ ev.ret = ENOENT /\ ev.wire = <<>>
    /\ rtpkeep.live /\ rtpkeep.tmr = Tr_UDP * 1000

\* the methods send_keepalive() knows
KnownMethods == {"zero", "stun", "dyna", "rtcp"}

\* C12: a keepalive object exists only with one of the methods zero, stun,
\* dyna and rtcp: with any other configured method the allocation in
\* stream_reset() fails and no keepalive timer runs.
C12_UnknownMethodRejected ==
    /\ rtpkeep.live => rtpkeep.method \in KnownMethods
    /\ (ev.op = "stream_reset" /\ cfg.rtpkeep \notin KnownMethods)
           => (~rtpkeep.live /\ rtpkeep.tmr = 0)

\* C13: a timeout of a dyna keepalive whose flag is clear, with every
\* payload type of 96..127 in the remote format table, returns ENOENT from
\* send_keepalive(), sends no packet, and leaves the timer running for the
\* next period.
C13_DynaExhausted ==
    [][(ev'.op = "timeout" /\ rtpkeep.method = "dyna" /\ ~rtpkeep.flag
        /\ \A pt \in PT_DYN_MIN .. PT_DYN_MAX : HasPt(sdp.rfmts, pt))
          => /\ ev'.ka = 1 /\ ev'.ret = ENOENT /\ ev'.wire = <<>>
             /\ rtpkeep'.live /\ rtpkeep'.tmr = Tr_UDP * 1000
             /\ ~rtpkeep'.flag
      ]_vars

C13_Witness ==
    /\ ev.op = "timeout" /\ ev.kam = "dyna" /\ ev.ret = ENOENT /\ ev.wire = <<>>
    /\ Len(sdp.rfmts) = PT_DYN_MAX - PT_DYN_MIN + 1
    /\ rtpkeep.tmr > 0 /\ s.n_tx > 0

\* the call trace of the last audio operation holds the call e
Did(e) == \E i \in DOMAIN aev.trace : aev.trace[i] = e

\* the number of references the audio object holds on codec state i
Refs(i) == (IF au.enc = i THEN 1 ELSE 0) + (IF au.dec = i THEN 1 ELSE 0)

\* C14: after any sequence of encoder and decoder sets, every codec state
\* the audio object references is alive and counts exactly the references
\* held on it, and when the encoder's and the decoder's codec have the same
\* name, clock rate and channel count, both reference the same codec state.
C14_CodecShared ==
    /\ \A i \in DOMAIN au.inst :
          /\ au.inst[i].refs = Refs(i)
          /\ Refs(i) > 0 => au.inst[i].ac # 0
    /\ (au.enc # 0 /\ au.dec # 0
        /\ aucodec_cmp(aucodec_get(au, au.enc), aucodec_get(au, au.dec)))
          => au.enc = au.dec

C14_Witness ==
    /\ aev.op = "audio_encoder_set" /\ aev.ret = 0 /\ Did("enc_share")
    /\ au.enc # 0 /\ au.enc = au.dec /\ au.inst[au.enc].refs = 2
    /\ au.inst[au.enc].ac = 2 /\ au.ausrc /\ au.auplay

\* the sample count of one frame of the encoder's codec: clock rate x
\* channels x ptime / 1000 (G.722: its clock rate of 8000 Hz)
FrameSamples ==
    LET ac == aucodec_get(au, au.enc) IN (ac.srate * ac.ch * au.ptime_tx) \div 1000

\* C15: the outgoing timestamp equals its start value plus, modulo 2^32,
\* the frame's sample count for every cycle that pulled, encoded and sent a
\* frame (160 per cycle and 8000 after 50 cycles at 8000 Hz mono, 20 ms).
C15_TimestampAdvance ==
    au.enc # 0 => au.ts_tx = Add32(ghost.ts0, ghost.n_ok * FrameSamples)

\* the step is stream_recv_handler() on a packet with payload that is
\* neither a telephone event nor comfort noise and whose payload type is
\* not the decoder's
RecvOtherPt ==
    /\ aev'.op = "recv" /\ aev'.mb
    /\ aev'.pt # au.pt_tel_rx /\ aev'.pt # PT_CN /\ aev'.pt # au.pt_rx

\* the positions of the call e in the step's trace
At(e) == {i \in DOMAIN aev'.trace : aev'.trace[i] = e}

\* C16: on a packet whose payload type differs from the decoder's: with a
\* local format for the new type the decoder is set for that format, and the
\* packet is decoded only after that and by the new decoder (not at all when
\* the set fails); with no such format the packet is dropped undecoded and
\* the decoder, its payload type and all else stay as they were.
C16_Renegotiate ==
    [][RecvOtherPt =>
         IF lformat(aev'.pt) # 0
         THEN /\ aev'.found
              /\ \A j \in At("dech") :
                    \E i \in At("dec_alloc") \cup At("dec_share") : i < j
              /\ IF aev'.ret = 0
                 THEN /\ au'.pt_rx = aev'.pt /\ au'.dec # 0
                      /\ au'.inst[au'.dec].ac = lformat(aev'.pt)
                      /\ At("dech") # {} /\ aev'.dcodec = lformat(aev'.pt)
                 ELSE At("dech") = {}
         ELSE /\ aev'.ret = ENOENT /\ ~aev'.found /\ aev'.trace = <<>>
              /\ au' = au
      ]_vars

C16_Witness ==
    /\ aev.op = "recv" /\ aev.mb /\ aev.found /\ aev.ret = 0 /\ aev.pt = 8
    /\ Did("dec_deref") /\ Did("dec_alloc") /\ Did("dech") /\ aev.dcodec = 2
    /\ au.pt_rx = 8 /\ au.enc # 0 /\ au.enc # au.dec /\ au.auplay

\* C17: the stream's rtcp_mux flag, once set, stays set; it is set only by
\* a stream_update() made while the local configuration allows multiplexing
\* and the remote description carries the rtcp-mux attribute.
C17_RtcpMuxMonotonic ==
    /\ [][s.rtcp_mux => s'.rtcp_mux]_vars
    /\ [][(~s.rtcp_mux /\ s'.rtcp_mux)
             => (cfg.rtcp_mux /\ sdp.rmux /\ ev'.op = "setup")]_vars
    /\ [](s.rtcp_mux => cfg.rtcp_mux)

C17_Witness ==
    /\ s.rtcp_mux /\ ~sdp.rmux /\ s.pt_enc = PT_DYN_MIN /\ sdp.rfmts = AllDyn

\* C18: every audio packet an encode cycle hands to the network carries the
\* marker bit exactly when no audio packet was sent on the stream before it,
\* whatever cycles (failed ones included) came before.
C18_MarkerOnFirstPacket ==
    [][(aev'.op \in {"ausrc_read", "tx_poll", "timeout_tx"} /\ aev'.wire # <<>>)
         => (aev'.wire[1].marker <=> ghost.n_pkt = 0)]_vars

\* C19: in thread and thread_realtime mode at most one tx thread exists, and
\* it exists whenever the run flag is set; the thread leaves its loop only
\* after the run flag was cleared; audio_stop() and the destructor return
\* only with the thread joined; a destroyed audio object has no tx thread.
C19_TxThreadOwned ==
    /\ [](/\ au.nthreads <= 1
          /\ (au.nthreads = 1 <=> au.thread # "none")
          /\ (au.run_tx => au.thread \in {"run", "poll", "enc"})
          /\ (~au.alive => au.thread = "none" /\ au.nthreads = 0))
    /\ [][(au.thread # "exited" /\ au'.thread = "exited") => ~au.run_tx]_vars
    /\ [][(aev'.op \in {"audio_stop", "audio_destructor"} /\ au'.rpc = "idle")
            => /\ au'.thread = "none" /\ au'.nthreads = 0 /\ ~au'.run_tx
               /\ au.thread # "none"
                     => (au.thread = "exited" /\ aev'.trace[1] = "pthread_join")
         ]_vars

C19_Witness ==
    /\ aev.op = "audio_destructor" /\ Did("pthread_join") /\ ~au.alive
    /\ au.thread = "none" /\ au.nthreads = 0 /\ ghost.n_pkt = 0
    /\ ghost.n_cyc = MaxCyc

\* the step is the end of audio_stop(), called directly or by the destructor
StopDone == aev'.op \in {"audio_stop", "audio_destructor"} /\ au'.rpc = "idle"

\* C20 as stated: in audio_stop() the capture source is stopped before the
\* tx thread is joined and before the tx ring buffer is released.
C20_SourceStoppedFirst ==
    [][StopDone =>
         /\ At("ausrc_deref") # {}
         /\ \A i \in At("ausrc_deref") :
               \A j \in At("pthread_join") \cup At("aubuf_tx_deref") : i < j
      ]_vars

\* C20 as the code has it: audio_stop() first joins the tx thread (thread
\* modes with the run flag set), during which the capture source keeps
\* running; then it stops the capture source, then the player and the
\* filter chain, and only then releases the tx ring buffer; the tx ring
\* buffer is never released while the capture source exists.
C20_JoinThenSourceThenBuffer ==
    /\ [][StopDone =>
           /\ At("ausrc_deref") # {} /\ At("aubuf_tx_deref") # {}
           /\ \A i \in At("pthread_join") : \A j \in At("ausrc_deref") : i < j
           /\ \A i \in At("ausrc_deref") : \A j \in At("aubuf_tx_deref") : i < j
           /\ ~au'.ausrc /\ ~au'.aubuf_tx
        ]_vars
    /\ [][au.rpc # "idle" => (au'.ausrc = au.ausrc \/ au'.rpc = "idle")]_vars
    /\ [](au.ausrc => au.aubuf_tx)

C20_Witness ==
    /\ aev.op = "audio_stop" /\ au.alive /\ au.rpc = "idle"
    /\ aev.trace[1] = "pthread_join" /\ aev.trace[2] = "ausrc_deref"
    /\ Did("aubuf_tx_deref") /\ ~au.ausrc /\ ~au.aubuf_tx /\ au.thread = "none"
    /\ ghost.n_cyc > 0

\* C21: whenever an operation releases an existing filter chain, a capture
\* source and a player that were running have been stopped earlier in the
\* same operation (audio_stop and audio_decoder_set's reset alike).
C21_FilterChainAfterDevices ==
    [][(au.fc /\ At("fc_deref") # {})
         => \A j \in At("fc_deref") :
              /\ au.ausrc => \E i \in At("ausrc_deref") : i < j
              /\ au.auplay => \E i \in At("auplay_deref") : i < j
      ]_vars

\* the audio object has a capture source, a player, a tx thread or a tx
\* timer that can call into it
Callers == au.ausrc \/ au.auplay \/ au.tmr_tx \/ au.thread # "none"

\* C22: the destructor, from any state, stops the tx thread or timer and
\* both devices before it releases the ring buffers, and releases the packet
\* buffers and codec states after those; a destroyed audio object is left
\* with no device, thread, timer, buffer or codec state, and nothing runs on
\* it any more; while the destructor waits for the tx thread nothing has
\* been released yet.
C22_DestroyStopsFirst ==
    /\ [][(aev'.op = "audio_destructor" /\ ~au'.alive) =>
           /\ \A i \in At("pthread_join") \cup At("tmr_cancel")
                      \cup At("ausrc_deref") \cup At("auplay_deref") :
                 \A j \in At("aubuf_tx_deref") \cup At("aubuf_rx_deref") : i < j
           /\ \A i \in At("aubuf_tx_deref") \cup At("aubuf_rx_deref") :
                 \A j \in At("enc_deref") \cup At("dec_deref")
                          \cup At("mb_rtp_deref") \cup At("mb_dec_deref") : i < j
           /\ At("ausrc_deref") # {} /\ At("auplay_deref") # {}
           /\ At("aubuf_tx_deref") # {} /\ At("enc_deref") # {}
           /\ au.mode = "tmr" => At("tmr_cancel") # {}
           /\ au.thread # "none" => At("pthread_join") # {}
        ]_vars
    /\ [](~au.alive =>
            /\ ~Callers /\ ~au.run_tx /\ ~au.fc /\ ~au.aubuf_tx /\ ~au.aubuf_rx
            /\ au.enc = 0 /\ au.dec = 0
            /\ \A i \in DOMAIN au.inst : au.inst[i] = NoInst)
    /\ [][au.alive]_vars
    /\ [][(au.rpc = "destroy_join" /\ au'.rpc = "destroy_join")
            => (au'.inst = au.inst /\ au'.aubuf_tx = au.aubuf_tx
                /\ au'.enc = au.enc /\ au'.alive)]_vars

C22_Witness ==
    /\ ~au.alive /\ aev.op = "audio_destructor" /\ Did("tmr_cancel")
    /\ aev.trace[2] = "ausrc_deref" /\ ghost.n_pkt = 0 /\ ghost.n_cyc > 0
    /\ ghost.n_tel > 0

\* C23: no step of the capture callback calls stream_send(), for an audio
\* frame or for a telephone-event packet, in any scheduling mode.
C23_NoSendOnDeviceThread ==
    [][aev'.ctx = "ausrc" => At("stream_send") = {}]_vars

\* C24: the capture callback's check_telev(), which resets and fills mb_rtp
\* and reads ts_tx, never runs while the tx thread is inside its encode path,
\* which fills and sends mb_rtp and advances ts_tx.
C24_NoSharedPacketState ==
    [][(aev'.ctx = "ausrc" /\ At("telev_poll") # {}) => au.thread # "enc"]_vars

\* the step ran audio_start(): called directly, or by the restart of an
\* encoder or decoder set
RanStart ==
    \/ aev'.op = "audio_start"
    \/ aev'.op = "audio_encoder_set" /\ At("ausrc_deref") # {} /\ au'.enc # 0
    \/ aev'.op = "audio_decoder_set" /\ At("auplay_deref") # {}

\* the step's encoder side failed: no encoder state, or no capture source
\* after audio_start()
EncSideFailed ==
    \/ aev'.op = "audio_encoder_set" /\ au'.enc = 0
    \/ RanStart /\ au'.enc # 0 /\ ~au'.ausrc

\* the step's decoder side failed: no decoder state, or no player after
\* audio_start()
DecSideFailed ==
    \/ aev'.op = "audio_decoder_set" /\ au'.dec = 0
    \/ RanStart /\ au'.dec # 0 /\ ~au'.auplay

\* C25: audio_start, audio_encoder_set and audio_decoder_set return non-zero
\* when a codec or device allocation in them failed; a running player is
\* still running after a failure of the encoder side, a running capture
\* source after a failure of the decoder side.
C25_FailureKeepsOtherSide ==
    [][aev'.op \in {"audio_start", "audio_encoder_set", "audio_decoder_set"} =>
         /\ (EncSideFailed \/ DecSideFailed) => aev'.ret # 0
         /\ (EncSideFailed /\ ~DecSideFailed /\ au.auplay) => au'.auplay
         /\ (DecSideFailed /\ ~EncSideFailed /\ au.ausrc) => au'.ausrc
      ]_vars

C25_Witness ==
    /\ aev.op = "audio_encoder_set" /\ aev.ret # 0 /\ Did("ausrc_deref")
    /\ Did("enc_alloc") /\ au.enc # 0 /\ ~au.ausrc /\ au.auplay /\ au.dec # 0

\* C26: a dyna keepalive sent while a dynamic payload type is unused by the
\* remote format table is one RTP packet to the remote address with the
\* largest unused payload type of 96..127, the timestamp of the most recent
\* refresh of the keepalive object (0 if there was none), no marker and no
\* payload.
C26_DynaPayloadType ==
    [][(ev'.op = "timeout" /\ ev'.ka = 1 /\ rtpkeep.method = "dyna"
        /\ FreeDyn(sdp.rfmts) # {})
         => /\ Len(ev'.wire) = 1
            /\ LET pkt == ev'.wire[1] IN
               /\ pkt.kind = "rtp" /\ pkt.dst = sdp.raddr
               /\ pkt.pt \in FreeDyn(sdp.rfmts)
               /\ \A q \in FreeDyn(sdp.rfmts) : q <= pkt.pt
               /\ pkt.ts = ghost.ka_ts /\ pkt.len = 0 /\ ~pkt.marker
      ]_vars

C26_Witness ==
    /\ ev.op = "timeout" /\ ev.kam = "dyna" /\ Len(ev.wire) = 1
    /\ ev.wire[1].pt = PT_DYN_MAX - 1 /\ ev.wire[1].ts = 320
    /\ HasPt(sdp.rfmts, PT_DYN_MAX) /\ s.n_tx = MaxTx

\* the encoder's codec before the step, and the codec the step asked for
\* (pt_tx is set to its payload type)
OldEnc == aucodec_get(au, au.enc)
NewEnc == AuCodecs[lformat(au'.pt_tx)]

\* the step stopped the capture source before it released the encoder and,
\* when it returned 0, started it again after the new encoder was set
CaptureRestarted ==
    /\ At("ausrc_deref") # {}
    /\ \A i \in At("ausrc_deref") : \A j \in At("enc_deref") : i < j
    /\ aev'.ret = 0 =>
         /\ au'.ausrc /\ At("ausrc_alloc") # {}
         /\ \A j \in At("ausrc_alloc") :
               \E i \in At("enc_alloc") \cup At("enc_share") : i < j

\* the step neither stopped nor started the capture source
CaptureUntouched ==
    At("ausrc_deref") = {} /\ At("ausrc_alloc") = {} /\ au'.ausrc = au.ausrc

\* C27 as stated: audio_encoder_set() stops and restarts capture when the
\* new codec's clock rate or channel count differs from the previous
\* encoder's, and leaves capture alone when they are the same or when there
\* was no encoder.
C27_RestartOnClockRate ==
    [][aev'.op = "audio_encoder_set" =>
         IF au.enc # 0 /\ ~aucodec_equal_clock_rate(OldEnc, NewEnc)
         THEN CaptureRestarted ELSE CaptureUntouched]_vars

\* C27 as the code has it: the rates compared are the sample rates the codecs
\* run at (16000 Hz for G.722, whose clock rate is 8000 Hz); when they or the
\* channel counts differ, capture is stopped before the encoder is released
\* and, unless the new encoder cannot be allocated, audio_start() runs after
\* the new encoder is set; otherwise capture is left alone.
C27_RestartOnSampleRate ==
    [][aev'.op = "audio_encoder_set" =>
         IF au.enc # 0 /\ (get_srate(OldEnc) # get_srate(NewEnc)
                           \/ OldEnc.ch # NewEnc.ch)
         THEN /\ CaptureRestarted
              /\ au'.enc = 0 => (aev'.ret # 0 /\ ~au'.ausrc /\ At("ausrc_alloc") = {})
         ELSE CaptureUntouched]_vars

C27_Witness ==
    /\ aev.op = "audio_encoder_set" /\ aev.ret = 0 /\ au.is_g722 /\ au.ausrc
    /\ aev.trace[1] = "ausrc_deref" /\ aev.trace[2] = "enc_deref"
    /\ Did("enc_share") /\ Did("ausrc_alloc")

\* the decoder's codec before the step, and the codec the step asked for
\* (pt_rx is set to its payload type)
OldDec == aucodec_get(au, au.dec)
NewDec == AuCodecs[lformat(au'.pt_rx)]

\* the step stopped the player and released the filter chain, both before
\* audio_start() made a filter chain or a player again, and when it returned
\* 0 a player and a filter chain are running
PlayerReset ==
    /\ At("auplay_deref") # {} /\ At("fc_deref") # {}
    /\ \A i \in At("auplay_deref") \cup At("fc_deref") :
          \A j \in At("aufilt_chain_alloc") \cup At("auplay_alloc")
                   \cup At("ausrc_alloc") : i < j
    /\ \A i \in At("dec_alloc") \cup At("dec_share") :
          \A j \in At("auplay_alloc") : i < j
    /\ aev'.ret = 0 => (au'.auplay /\ au'.fc /\ At("auplay_alloc") # {})

\* the step left the player and the filter chain alone
PlayerUntouched ==
    /\ At("auplay_deref") = {} /\ At("fc_deref") = {} /\ At("auplay_alloc") = {}
    /\ au'.auplay = au.auplay /\ au'.fc = au.fc

\* C28 as stated: audio_decoder_set() tears down the player and resets the
\* filter chain before the restart when the previous decoder's identity
\* (name, clock rate, channels) differs from the new one, and leaves both
\* alone otherwise.
C28_ResetOnIdentity ==
    [][(aev'.op = "audio_decoder_set" /\ au'.dec # 0) =>
         IF au.dec # 0 /\ ~aucodec_cmp(OldDec, NewDec)
         THEN PlayerReset ELSE PlayerUntouched]_vars

\* C28 as the code has it: the player is torn down and the filter chain
\* reset, after the new decoder is set and before audio_start(), when a
\* previous decoder exists whose sample rate (16000 Hz for G.722) or channel
\* count differs from the new codec's; with a different name only, with no
\* previous decoder, or when the new decoder cannot be allocated, player
\* and filter chain are left alone.
C28_ResetOnSampleRate ==
    [][aev'.op = "audio_decoder_set" =>
         IF /\ au.dec # 0 /\ au'.dec # 0
            /\ (get_srate(OldDec) # get_srate(NewDec) \/ OldDec.ch # NewDec.ch)
         THEN PlayerReset
         ELSE PlayerUntouched /\ (au'.dec = 0 => aev'.ret # 0)]_vars

C28_Witness ==
    /\ aev.op = "audio_decoder_set" /\ aev.ret = 0 /\ au.auplay /\ au.fc
    /\ au.ausrc /\ Did("dec_alloc") /\ Did("auplay_deref") /\ Did("fc_deref")
    /\ Did("aufilt_chain_alloc") /\ Did("auplay_alloc") /\ au.pt_rx = 9

\* C29: an encode cycle whose encoder fails hands no packet to the network,
\* calls stream_send() not at all and leaves the outgoing timestamp, the
\* stream and the audio object as they were, the marker flag apart; a
\* received frame whose decoder fails is not written to the rx ring buffer
\* and leaves the audio object as it was, or as the change of decoder for a
\* new payload type left it.
C29_TransientCodecErrors ==
    /\ [][At("ench_failed") # {} =>
           /\ aev'.wire = <<>> /\ At("stream_send") = {} /\ ~aev'.ok
           /\ au'.ts_tx = au.ts_tx /\ s' = s /\ rtpkeep' = rtpkeep
           /\ au' = [au EXCEPT !.marker = FALSE]
        ]_vars
    /\ [][At("dech_failed") # {} =>
           /\ ~aev'.rxw /\ At("aubuf_write") = {}
           /\ ~aev'.found => au' = au
           /\ aev'.found =>
                  au' = audio_decoder_set(au, lformat(aev'.pt), aev'.pt,
                                          TRUE, TRUE, TRUE, TRUE).a
        ]_vars

C29_Witness ==
    /\ aev.op = "recv" /\ Did("dech_failed") /\ ~aev.found /\ aev.mb
    /\ au.auplay /\ au.ausrc /\ au.aubuf_rx
    /\ ghost.n_cyc = 2 /\ ghost.n_ok = 1 /\ ghost.n_pkt = 1 /\ ~au.marker
    /\ au.ts_tx = TsStart + 160

\* C30: a packet with payload whose type is the telephone-event receive type
\* goes to the DTMF decoder, not to the audio decoder, and sets no decoder;
\* a comfort-noise packet is not decoded and changes nothing; a loss (no
\* payload) goes to the decoder that is set, whatever the type in its header,
\* without a change of decoder.
C30_DispatchOrder ==
    [][aev'.op = "recv" =>
        /\ (aev'.mb /\ aev'.pt = au.pt_tel_rx) =>
               /\ aev'.trace = <<"telev_recv">>
               /\ ~aev'.found /\ au' = au
        /\ (aev'.mb /\ aev'.pt = PT_CN) =>
               /\ At("dech") = {} /\ At("dec_alloc") = {}
               /\ ~aev'.found /\ au' = au
        /\ (~aev'.mb /\ au.dec # 0) =>
               /\ 1 \in At("dech")
               /\ aev'.dcodec = au.inst[au.dec].ac
               /\ ~aev'.found /\ au' = au
        /\ (~aev'.mb /\ au.dec = 0) => (aev'.trace = <<>> /\ au' = au)
    ]_vars

C30_Witness ==
    /\ aev.op = "recv" /\ ~aev.mb /\ aev.pt = au.pt_tel_rx
    /\ Did("dech") /\ Did("aubuf_write")
    /\ au.pt_rx # aev.pt

C30_WitnessTelev ==
    /\ aev.op = "recv" /\ aev.mb /\ aev.pt = au.pt_tel_rx
    /\ aev.pt = 8 /\ au.pt_rx = 0 /\ Did("telev_recv")

\* C31: the decoder is called at least once and at most DechCap + 1 times for
\* a packet, and the loop ends with the call that fails, with the call that
\* exhausts the packet, or at the cap; a decoder that reads nothing and does
\* not fail is called DechCap + 1 times.
C31_DecodeLoopBounded ==
    (aev.op = "recv" /\ Did("dech")) =>
        /\ aev.ndech \in 1 .. (DechCap + 1)
        /\ \/ aev.errat = aev.ndech /\ Did("dech_failed")
           \/ aev.left = 0 /\ ~Did("dech_failed")
           \/ aev.ndech = DechCap + 1 /\ ~Did("dech_failed")
        /\ ~(aev.errat # 0 /\ aev.errat < aev.ndech)

C31_Witness ==
    /\ aev.op = "recv" /\ Did("dech") /\ aev.ndech = DechCap + 1
    /\ aev.left > 0 /\ ~Did("dech_failed") /\ Did("aubuf_write")

\* C32: every capture chunk polls the DTMF encoder, whatever the scheduling
\* mode; a telephone-event packet with the marker carries the outgoing audio
\* timestamp of that moment, which is latched; one without the marker
\* carries the latched timestamp; and nothing else changes the latch.
TelevPkt == aev'.telwire[1]

C32_TelevTimestamp ==
    [][/\ aev'.op = "ausrc_read" => At("telev_poll") # {}
       /\ (aev'.telwire # <<>> /\ TelevPkt.marker) =>
              /\ TelevPkt.ts = au'.ts_tx
              /\ au'.ts_tel = au'.ts_tx
       /\ (aev'.telwire # <<>> /\ ~TelevPkt.marker) =>
              /\ TelevPkt.ts = au.ts_tel
              /\ au'.ts_tel = au.ts_tel
       /\ aev'.telwire = <<>> => au'.ts_tel = au.ts_tel
    ]_vars

C32_Witness ==
    /\ aev.op = "ausrc_read" /\ aev.telwire # <<>>
    /\ ~aev.telwire[1].marker /\ aev.telwire[1].ts = TsStart
    /\ au.ts_tx = TsStart + 320 /\ au.ts_tel = TsStart
    /\ au.mode = "thread" /\ ghost.n_tel = MaxTelSeq

\* C33 (as stated): a sample taken when an earlier one has recorded its time
\* sets each bitrate to bytes * 8 * 1000 / elapsed ms and resets both
\* counters; the first sample leaves the bitrates, records the time and
\* resets the counters; every sample arms the timer for 3 seconds.
C33_BitrateSample ==
    [][ev'.op = "tmr_stats" =>
        /\ s'.tmr_stats = 3000
        /\ s'.b_tx = 0 /\ s'.b_rx = 0
        /\ s'.stats_ts = ev'.now
        /\ s.stats_ts = 0 =>
               (s'.bitrate_tx = s.bitrate_tx /\ s'.bitrate_rx = s.bitrate_rx)
        /\ (s.stats_ts # 0 /\ ev'.now > s.stats_ts) =>
               /\ s'.bitrate_tx = ExactBitrate(s.b_tx, ev'.now - s.stats_ts)
               /\ s'.bitrate_rx = ExactBitrate(s.b_rx, ev'.now - s.stats_ts)
    ]_vars

\* C33, the sample at a later time than the one before, on a build whose
\* size_t has 64 bits
C33_BitrateSampleLater ==
    [][(ev'.op = "tmr_stats" /\ ev'.now > s.stats_ts /\ ghost.size_bits = 64) =>
        /\ s'.tmr_stats = 3000
        /\ s'.b_tx = 0 /\ s'.b_rx = 0
        /\ s'.stats_ts = ev'.now
        /\ s.stats_ts = 0 =>
               (s'.bitrate_tx = s.bitrate_tx /\ s'.bitrate_rx = s.bitrate_rx)
        /\ s.stats_ts # 0 =>
               /\ s'.bitrate_tx = ExactBitrate(s.b_tx, ev'.now - s.stats_ts)
               /\ s'.bitrate_rx = ExactBitrate(s.b_rx, ev'.now - s.stats_ts)
    ]_vars

\* C33, a wrapped bitrate: 600000 bytes in 3000 ms are 1600000 bit/s
C33_Wrapped ==
    /\ ev.op = "tmr_stats" /\ ghost.size_bits = 32
    /\ s.stats_ts = 4000 /\ s.bitrate_tx = 168344 /\ s.bitrate_rx = 800000

Dequeued(tr) == \E i \in DOMAIN tr : tr[i].e = "get" /\ tr[i].ok
DequeueFailed(tr) == \E i \in DOMAIN tr : tr[i].e = "get" /\ ~tr[i].ok
HandlerCalls(tr) == {i \in DOMAIN tr : tr[i].e = "rtph"}

C35_JbufDrain ==
    [][/\ s.jbuf_started => s'.jbuf_started
       /\ (ev'.op = "rtp_recv" /\ DequeueFailed(ev'.trace)) =>
              IF s.jbuf_started
              THEN /\ Len(ev'.trace) \in HandlerCalls(ev'.trace)
                   /\ ev'.trace[Len(ev'.trace)].hdr = "zero"
                   /\ ev'.trace[Len(ev'.trace)].seq = 0
                   /\ ev'.trace[Len(ev'.trace)].mb = "null"
              ELSE /\ HandlerCalls(ev'.trace) = {}
                   /\ ~s'.jbuf_started
       /\ (ev'.op = "rtp_recv" /\ Dequeued(ev'.trace)) =>
              /\ s'.jbuf_started
              /\ ev'.trace[Len(ev'.trace)].e = "rtph"
              /\ ev'.trace[Len(ev'.trace)].mb = "data"
    ]_vars

C35_Witness ==
    /\ ev.op = "rtp_recv" /\ DequeueFailed(ev.trace) /\ s.jbuf_started
    /\ ev.trace[Len(ev.trace)].hdr = "zero"
    /\ ev.trace[Len(ev.trace)].mb = "null"
    /\ jbuf = <<>>

\* C36: a frame pulled from the tx ring buffer and encoded has as many
\* samples (psize / 2) as the encoder's sample rate and channels give for
\* the transmit packet time of that moment.
PulledSamples == au.psize \div 2

PtimeSamples ==
    LET ac == aucodec_get(au, au.enc)
    IN (get_srate(ac) * ac.ch * au.ptime_tx) \div 1000

C36_PullIsPtime ==
    (aev.op = "ausrc_read" /\ Did("ench")) => PulledSamples = PtimeSamples

\* C36, a pull after the remote ptime attribute changed the packet time
C36_StalePull ==
    /\ aev.op = "ausrc_read" /\ Did("ench") /\ au.ptime_tx = 40
    /\ PulledSamples = 160 /\ PtimeSamples = 320

\* C37: a keepalive object's timer stands at 20 ms from its allocation to
\* its first timeout and at 15 s after every timeout; the first timeout,
\* like every other, calls send_keepalive() when no RTP packet was sent since
\* the allocation (methods zero and stun then hand a packet to the network)
\* and sends nothing when one was sent.
C37_FirstTimeoutEarly ==
    [][/\ (rtpkeep'.live /\ (~rtpkeep.live \/ rtpkeep'.id # rtpkeep.id)) =>
              rtpkeep'.tmr = TmrFirst
       /\ (rtpkeep'.live /\ rtpkeep'.tmr = TmrFirst /\ rtpkeep.live
              /\ rtpkeep'.id = rtpkeep.id) =>
              (rtpkeep.tmr = TmrFirst /\ ev'.op # "timeout")
       /\ ev'.op = "timeout" =>
              /\ rtpkeep'.tmr = 15000
              /\ ev'.tmr0 = rtpkeep.tmr
              /\ ~rtpkeep.flag =>
                     /\ ev'.ka = 1
                     /\ rtpkeep.method \in {"zero", "stun"} => ev'.wire # <<>>
              /\ rtpkeep.flag => (ev'.ka = 0 /\ ev'.wire = <<>>)
    ]_vars

C37_Witness ==
    /\ ev.op = "timeout" /\ ev.tmr0 = TmrFirst /\ ev.ka = 1
    /\ ev.wire # <<>> /\ rtpkeep.live /\ rtpkeep.tmr = 15000
    /\ s.n_tx = 0

\* C38: a stream_send() that passes the gate adds the payload length to the
\* tx byte counter, adds one to the tx packet counter and sets the keepalive
\* object's flag and timestamp, whether or not a packet reached the network;
\* and the timeout that follows such a send calls no send_keepalive().
SendPassed == ev'.op = "stream_send" /\ ev'.passed

C38_CountedEvenIfFailed ==
    [][/\ SendPassed =>
              /\ s'.n_tx = s.n_tx + 1
              /\ (s'.b_tx - s.b_tx) \in TxLenVals
              /\ rtpkeep.live =>
                     (rtpkeep'.flag /\ rtpkeep'.ts = ghost'.ka_ts
                        /\ rtpkeep'.ts \in TsVals)
       /\ (ev.op = "stream_send" /\ ev.passed /\ rtpkeep.live
              /\ ev'.op = "timeout") =>
              (ev'.ka = 0 /\ ev'.wire = <<>> /\ ~rtpkeep'.flag)
    ]_vars

C38_Witness ==
    /\ ev.op = "stream_send" /\ ev.passed /\ ev.ret # 0
    /\ rtpkeep.live /\ rtpkeep.flag
    /\ s.n_tx = 1 /\ s.b_tx = 1

C38_WitnessNoPt ==
    /\ ev.op = "stream_send" /\ ev.passed /\ ev.wire = <<>>
    /\ rtpkeep.live /\ rtpkeep.flag
    /\ s.n_tx = 1 /\ s.b_tx = 1

\* C39: at most one keepalive object has its timer armed, and it is the
\* stream's; a stream_reset() releases the object there was before it makes
\* a new one, and makes one only with a method configured and a remote
\* format negotiated; stream_destructor() releases the keepalive object
\* before the media descriptor and the socket, and leaves no timer armed.
CallAt(tr, e) == {i \in DOMAIN tr : tr[i].e = e}

C39_OneKeepalive ==
    /\ [](Cardinality(ghost.armed) <= 1)
    /\ [](ghost.armed = IF rtpkeep.live THEN {rtpkeep.id} ELSE {})
    /\ [](ghost.gone => (ghost.armed = {} /\ ~rtpkeep.live))
    /\ [][ev'.op = "stream_reset" =>
             /\ rtpkeep'.live => (cfg.rtpkeep # "" /\ sdp.rfmts # <<>>)
             /\ rtpkeep.live =>
                    /\ CallAt(ev'.trace, "rtpkeep_deref") = {1}
                    /\ rtpkeep.id \notin ghost'.armed
             /\ \A i \in CallAt(ev'.trace, "rtpkeep_deref"),
                   j \in CallAt(ev'.trace, "rtpkeep_alloc") : i < j
          ]_vars
    /\ [][ev'.op = "stream_destructor" =>
             \A i \in CallAt(ev'.trace, "rtpkeep_deref"),
                j \in CallAt(ev'.trace, "sdp_deref")
                         \cup CallAt(ev'.trace, "rtp_deref") : i < j
          ]_vars

C39_Witness ==
    /\ ev.op = "stream_reset" /\ rtpkeep.live /\ rtpkeep.id = 2
    /\ ghost.armed = {2}
    /\ CallAt(ev.trace, "rtpkeep_deref") = {1}
    /\ CallAt(ev.trace, "rtpkeep_alloc") = {2}

C39_WitnessDestroyed ==
    /\ ev.op = "stream_destructor" /\ ev.ka = 2 /\ ghost.gone
    /\ ghost.armed = {} /\ CallAt(ev.trace, "rtpkeep_deref") = {3}

\* C40: in thread and thread_realtime mode no audio_encoder_set() that finds
\* an encoder runs while the tx thread has pulled a frame and is in
\* process_audio_encode() / encode_rtp_send() on it.
ThreadEncoding == au.mode \in {"thread", "thread_realtime"} /\ au.thread = "enc"

C40_NoSwapDuringEncode ==
    [][(aev'.op = "audio_encoder_set" /\ au.enc # 0) => ~ThreadEncoding]_vars

====
